---- MODULE Spec2Model ----
(***************************************************************************)
(* PharmaSys: state-machine model of                                       *)
(*   - the purchase-deletion stock rollback (purchase-list/index.tsx),     *)
(*   - the mutation error handlers (master-data hook, patient list),       *)
(*   - the price arithmetic and recalculation effect of the item form,     *)
(*   - the save / load mapping of an item's unit_conversions.              *)
(* Each part has its own specification; the variables of the other parts   *)
(* stay unchanged under it.                                                *)
(***************************************************************************)
EXTENDS Integers, Sequences, FiniteSets, TLC

\* ------------------------------------------------------------------ bounds
MaxQty == 2        \* purchase-line quantities range over 1..MaxQty
MaxStock == 2      \* initial item stock ranges over 0..MaxStock (whole base units)
MaxFailures == 1   \* backend calls that fail in one behaviour
MaxMutations == 2  \* deletePurchaseMutation.mutate calls in one behaviour
MaxCalls == 3      \* mutate() calls on the CRUD mutations in one behaviour
MaxPrice == 3      \* prices typed into the item form range over 0..MaxPrice
MaxRate == 2       \* conversion rates of saved conversions range over 1..MaxRate
MaxRows == 4       \* rows matching a list query range over 0..MaxRows
MaxLimit == 3      \* page sizes (itemsPerPage) range over 1..MaxLimit
MaxChanges == 3    \* row changes made to table purchases by other sessions
MaxLookups == 3    \* item-code lookups started in one behaviour

VARIABLES
    \* ---- backend tables read and written by the purchase deletion
    stock,           \* items.stock, per item, in 1/Scale base units
    purchases,       \* ids of the rows of table purchases
    purchase_items,  \* rows of table purchase_items
    \* ---- one run of deletePurchaseMutation per client d
    pc,              \* position of the run inside mutationFn / callbacks
    mutId,           \* the id passed to mutationFn
    purchaseItems,   \* the lines returned by the first select
    lineIdx,         \* position of the for loop
    itemData,        \* result of the per-line select of the item row
    newStock,        \* the value computed for the stock write
    adjusted,        \* lines of this run whose stock write succeeded
    skipped,         \* lines of this run whose read or write failed
    delAlerts,       \* alert() calls made by onError
    invalidated,     \* invalidateQueries(["purchases"]) calls made by onSuccess
    failures,        \* failed backend calls so far
    mutations,       \* mutate() calls so far
    initStock,       \* the stock before any deletion (history)
    rolledBack,      \* purchases whose deletion wrote every line's stock and then
                     \* failed to delete the purchase row (history)
    \* ---- the CRUD mutations (useMutation objects), per mutation
    mstatus,         \* "idle" or "pending"
    mutateCalls,     \* mutate / mutateAsync calls
    writeCalls,      \* backend writes sent by mutationFn
    failedWrites,    \* writes that answered with an error
    alertCalls,      \* alert() calls made by onError
    successCalls,    \* onSuccess runs
    \* ---- the item form (useAddItemForm) and its unit-conversion hook
    formData,        \* formData.base_price, formData.sell_price
    hookBasePrice,   \* unitConversionHook.basePrice
    hookSellPrice,   \* unitConversionHook.sellPrice
    conversions,     \* unitConversionHook.conversions
    lastCall,        \* last call of calculateProfitPercentage / calculateSellPriceFromMargin
    \* ---- saving and loading an item's unit_conversions
    formPc,          \* "add" / "edit": the form is open in that mode; "closed"
    units,           \* the units state of the form (what fetchItemData's closure sees)
    columnType,      \* how the backend hands back items.unit_conversions
    unit_conversions,        \* items.unit_conversions of the item row
    initialUnitConversions,  \* initialUnitConversions of the form
    listConversions,         \* unit_conversions of the item in the item list
    savedConversions,        \* the form's conversions at the last handleSubmit (history)
    \* ---- a paginated list (useMasterDataManagement, PurchaseList)
    totalRows,       \* number of rows the list query matches in the backend
    currentPage,     \* currentPage
    itemsPerPage,    \* itemsPerPage
    queryData,       \* data of useQuery for the current key
    pagesSeen,       \* the pages fetched with the current page size (history)
    \* ---- the debounced search of a list
    hookKind,        \* which list: "masterData" or "purchaseList"
    search,          \* search
    debouncedSearch, \* debouncedSearch
    timers,          \* pending setTimeout callbacks: captured search value, time waited
    heldFor,         \* how long search has held its current value (history, capped)
    typing,          \* whether the user is still typing
    cleared,         \* values whose timer was cleared before it fired (history)
    reached,         \* values debouncedSearch has been set to (history)
    \* ---- the purchases query of PurchaseList and its realtime subscription
    notifications,   \* change notifications on table purchases not yet delivered
    qStatus,         \* fetchStatus of the ["purchases", ...] query: "idle" / "fetching"
    qResponse,       \* what the backend answered to the fetch in flight
    shown,           \* data.purchases: the ids of the rows the list shows
    changes,         \* row changes made so far
    fetchFailures,   \* failed fetches so far
    \* ---- item-code generation in the add-item forms, per form
    itemCodes,       \* column code of the rows of table items, in insertion order
    formOpen,        \* whether the form is mounted
    selection,       \* formData.type_id, category_id, unit_id
    formCode,        \* formData.code, with where it came from (history)
    lookups,         \* generateItemCode calls whose select is awaited
    lookupCount,     \* lookups started so far
    lookupFailures,  \* lookups that answered with an error so far
    \* ---- one useMasterDataManagement(tableName, ...) and the query cache
    tableName,       \* the hook's table
    isAddModalOpen,  \* isAddModalOpen
    isEditModalOpen, \* isEditModalOpen
    editingItem,     \* editingItem
    queryCache,      \* per cached query key: "absent", "fresh" or "stale"
    crudStatus,      \* status of addMutation / updateMutation / deleteMutation
    crudCalls,       \* mutate / mutateAsync calls so far
    crudAlerts,      \* alert() calls made by the onError handlers
    clearTimer,      \* the pending timer of the editingItem clear effect
    \* ---- one item form (useAddItemForm) from mount to unmount, and sessionStorage
    mounted,         \* whether the component that calls the hook is mounted
    itemId,          \* the itemId prop: Null in add mode
    initialFormData, \* initialFormData: Null until it is set
    itemFormData,    \* formData of the item form (its name field stands for the record)
    fetchPending,    \* fetchItemData(itemId) is awaited
    saving,          \* saving
    submitPending,   \* handleSubmit awaits its insert / update
    latest,          \* the refs latestIsEditMode, latestIsDirty, latestFormData, latestSavingState
    sessionCache,    \* sessionStorage's entry CACHE_KEY
    confirmOpen,     \* the confirm dialog opened by handleCancel is open
    closeCalls,      \* how onClose / setIsClosing(true) was called for this mount (history)
    savedInAddMode,  \* an add-mode handleSubmit of the last mount succeeded (history)
    submitFailures,  \* failed saves so far
    \* ---- MainLayout and its Sidebar
    sidebarCollapsed, \* sidebarCollapsed, every setSidebarCollapsed call applied
    isLocked,        \* isLocked, every setIsLocked call applied
    isLockedRef,     \* isLockedRef.current
    rendered,        \* the state of the last committed render: what the handlers'
                     \* closures and the DOM hold
    autoCollapse,    \* the one-time 1-second timer: "pending" or "done"
    hoverTimeout,    \* hoverTimeoutRef.current: the pending 100 ms timer, if any
    hovering,        \* the pointer is over the sidebar
    toggles,         \* clicks on the lock button so far
    \* ---- one list (useMasterDataManagement or PurchaseList) with search and deletions
    listHook,        \* which list: "masterData" or "purchaseList"
    listRows,        \* the rows of the list's table
    listPage,        \* currentPage
    listLimit,       \* itemsPerPage
    listSearch,      \* debouncedSearch
    \* ---- updatePatientImageMutation, the patient row and the storage bucket
    storageFiles,    \* paths of the files in bucket "patients"
    image_url,       \* patients.image_url of the patient: Null or a file's path
    imagePc,         \* position of the run inside mutationFn / callbacks
    patientData,     \* patientData?.image_url as read by the first select
    publicUrl,       \* publicUrl returned by uploadEntityImage
    imageCalls,      \* mutate() calls so far
    imageFailures,   \* failed calls so far
    \* ---- one Button
    buttonProps,     \* the props of the last render
    buttonElement,   \* the <button> React rendered: its disabled attribute and content
    buttonClicks,    \* clicks that reached onClick
    \* ---- AddEditModal
    modalOpen,       \* isOpen
    modalName,       \* name, a sequence of characters
    modalDescription, \* description
    modalAlerts,     \* alert() calls of handleSave
    onSubmitCalls,   \* onSubmit calls of handleSave
    lastSubmit       \* the argument of the last onSubmit call

delVars == <<stock, purchases, purchase_items, pc, mutId, purchaseItems, lineIdx,
             itemData, newStock, adjusted, skipped, delAlerts, invalidated,
             failures, mutations, initStock, rolledBack>>

mutVars == <<mstatus, mutateCalls, writeCalls, failedWrites, alertCalls, successCalls>>

formVars == <<formData, hookBasePrice, hookSellPrice, conversions, lastCall>>

convVars == <<formPc, units, columnType, unit_conversions, initialUnitConversions,
              listConversions, savedConversions>>

pageVars == <<totalRows, currentPage, itemsPerPage, queryData, pagesSeen>>

searchVars == <<hookKind, search, debouncedSearch, timers, heldFor, typing, cleared, reached>>

\* the variables of the list and code-generation parts
rtVars == <<notifications, qStatus, qResponse, shown, changes, fetchFailures>>

codeVars == <<itemCodes, formOpen, selection, formCode, lookups, lookupCount, lookupFailures>>

crudVars == <<tableName, isAddModalOpen, isEditModalOpen, editingItem, queryCache,
              crudStatus, crudCalls, crudAlerts, clearTimer>>

laterVars == <<pageVars, searchVars, rtVars, codeVars, crudVars>>

itemFormVars == <<mounted, itemId, initialFormData, itemFormData, fetchPending, saving,
                  submitPending, latest, sessionCache, confirmOpen, closeCalls,
                  savedInAddMode, submitFailures>>

sidebarVars == <<sidebarCollapsed, isLocked, isLockedRef, rendered, autoCollapse, hoverTimeout,
                 hovering, toggles>>

listVars == <<listHook, listRows, listPage, listLimit, listSearch>>

imageVars == <<storageFiles, image_url, imagePc, patientData, publicUrl, imageCalls,
               imageFailures>>

buttonVars == <<buttonProps, buttonElement, buttonClicks>>

modalVars == <<modalOpen, modalName, modalDescription, modalAlerts, onSubmitCalls, lastSubmit>>

widgetVars == <<buttonVars, modalVars>>

\* the variables of the component-level parts
finalVars == <<itemFormVars, sidebarVars, listVars, imageVars, widgetVars>>
buttonOthers == <<delVars, mutVars, formVars, convVars, laterVars, itemFormVars, sidebarVars,
                  listVars, imageVars, modalVars>>
modalOthers == <<delVars, mutVars, formVars, convVars, laterVars, itemFormVars, sidebarVars,
                 listVars, imageVars, buttonVars>>
itemFormOthers == <<delVars, mutVars, formVars, convVars, laterVars, sidebarVars, listVars,
                    imageVars, widgetVars>>
sidebarOthers == <<delVars, mutVars, formVars, convVars, laterVars, itemFormVars, listVars,
                   imageVars, widgetVars>>
listOthers == <<delVars, mutVars, formVars, convVars, laterVars, itemFormVars, sidebarVars,
                imageVars, widgetVars>>
imageOthers == <<delVars, mutVars, formVars, convVars, laterVars, itemFormVars, sidebarVars,
                 listVars, widgetVars>>

vars == <<delVars, mutVars, formVars, convVars, laterVars, finalVars>>

\* what the actions of one part leave unchanged
delOthers == <<mutVars, formVars, convVars, laterVars, finalVars>>
mutOthers == <<delVars, formVars, convVars, laterVars, finalVars>>
formOthers == <<delVars, mutVars, convVars, laterVars, finalVars>>
convOthers == <<delVars, mutVars, formData, hookBasePrice, hookSellPrice, lastCall, laterVars,
                finalVars>>
earlierVars == <<delVars, mutVars, formVars, convVars>>
pageOthers == <<earlierVars, searchVars, rtVars, codeVars, crudVars, finalVars>>
searchOthers == <<earlierVars, totalRows, itemsPerPage, queryData, pagesSeen, rtVars, codeVars,
                  crudVars, finalVars>>
codeOthers == <<earlierVars, pageVars, searchVars, rtVars, crudVars, finalVars>>
crudOthers == <<earlierVars, pageVars, searchVars, rtVars, codeVars, finalVars>>
rtOthers == <<stock, pc, mutId, purchaseItems, lineIdx, itemData, newStock, adjusted, skipped,
              delAlerts, invalidated, failures, mutations, initStock, rolledBack,
              mutVars, formVars, convVars, pageVars, searchVars, codeVars, crudVars, finalVars>>

\* ------------------------------------------------------------ fixtures
Dels == {"d1", "d2"}
ItemIds == {"i1", "i2"}
PurchaseIds == {"p1", "p2"}

\* items rows: base_unit and unit_conversions, as selected at line 154
ItemRow(i) ==
    IF i = "i1"
    THEN [base_unit |-> "tablet",
          unit_conversions |-> << [unit_name |-> "strip", conversion_rate |-> 2],
                                  [unit_name |-> "box", conversion_rate |-> 4] >>]
    ELSE [base_unit |-> "tablet", unit_conversions |-> << >>]

RECURSIVE SeqProduct(_)
SeqProduct(s) == IF s = << >> THEN 1 ELSE Head(s).conversion_rate * SeqProduct(Tail(s))

\* JS numbers are not integers: item.quantity / conversion_rate is a fraction.
\* Stock and quantities in base units are kept as integers in 1/Scale units,
\* Scale being a common multiple of every conversion rate, so the division is exact.
Scale == SeqProduct(ItemRow("i1").unit_conversions) * SeqProduct(ItemRow("i2").unit_conversions)

Max(a, b) == IF a >= b THEN a ELSE b

Null == "null"

\* the lines of the fixture; Init draws their quantities
LineShapes ==
    { [id |-> "l1", purchase_id |-> "p1", item_id |-> "i1", unit |-> "box"],
      [id |-> "l2", purchase_id |-> "p1", item_id |-> "i1", unit |-> "tablet"],
      [id |-> "l3", purchase_id |-> "p2", item_id |-> "i1", unit |-> "strip"],
      [id |-> "l4", purchase_id |-> "p2", item_id |-> "i2", unit |-> "box"] }

WithQuantity(shape, q) ==
    [id |-> shape.id, purchase_id |-> shape.purchase_id, item_id |-> shape.item_id,
     unit |-> shape.unit, quantity |-> q]

\* every order in which a select without ORDER BY may return the rows
Orders(rows) ==
    { s \in [1..Cardinality(rows) -> rows] :
        \A a, b \in 1..Cardinality(rows) : a # b => s[a] # s[b] }

----------------------------------------------------------------------------
\* deletePurchaseMutation.mutationFn, lines 159-176

\* Array.prototype.find: the first conversion with that unit name, or Null
RECURSIVE FindConversion(_, _)
FindConversion(convs, unit) ==
    IF convs = << >> THEN Null
    ELSE IF Head(convs).unit_name = unit THEN Head(convs)
    ELSE FindConversion(Tail(convs), unit)

HasConversion(convs, unit) == \E k \in 1..Len(convs) : convs[k].unit_name = unit

QuantityInBaseUnitDropsUnknown(item, data) ==
    IF item.unit = data.base_unit THEN item.quantity * Scale
    ELSE IF HasConversion(data.unit_conversions, item.unit)
    THEN (item.quantity * Scale) \div FindConversion(data.unit_conversions, item.unit).conversion_rate
    ELSE 0
\* quantityInBaseUnit, in 1/Scale units
QuantityInBaseUnit(item, data) ==
    IF item.unit # data.base_unit /\ HasConversion(data.unit_conversions, item.unit)
    THEN (item.quantity * Scale) \div FindConversion(data.unit_conversions, item.unit).conversion_rate
    ELSE item.quantity * Scale

NewStockUnclamped(item, data) == data.stock - QuantityInBaseUnit(item, data)

\* newStock = Math.max(0, (itemData.stock || 0) - quantityInBaseUnit)
NewStock(item, data) == Max(0, data.stock - QuantityInBaseUnit(item, data))

CurrentLine(d) == purchaseItems[d][lineIdx[d]]

SelectItemStale(i) ==
    [stock |-> initStock[i], base_unit |-> ItemRow(i).base_unit,
     unit_conversions |-> ItemRow(i).unit_conversions]

\* the row returned by select("stock, base_unit, unit_conversions").single()
SelectItem(i) ==
    [stock |-> stock[i], base_unit |-> ItemRow(i).base_unit,
     unit_conversions |-> ItemRow(i).unit_conversions]

NoItem == [stock |-> 0, base_unit |-> Null, unit_conversions |-> << >>]

WrittenStockFresh(d) == NewStock(CurrentLine(d), SelectItem(CurrentLine(d).item_id))

\* update({ stock: newStock }): the value computed before the await is written
WrittenStock(d) == newStock[d]

NextPcDeleteEarly(d) == "deletePurchase"

\* the end of one pass of the for loop
NextPc(d) == IF lineIdx[d] < Len(purchaseItems[d]) THEN "readItem" ELSE "deletePurchase"

\* mutationFn returns or throws: its locals go out of scope
Return(d) ==
    /\ purchaseItems' = [purchaseItems EXCEPT ![d] = << >>]
    /\ lineIdx' = [lineIdx EXCEPT ![d] = 0]
    /\ itemData' = [itemData EXCEPT ![d] = NoItem]
    /\ newStock' = [newStock EXCEPT ![d] = 0]

DelInit ==
    /\ \E s \in 0..MaxStock : stock = [i \in ItemIds |-> IF i = "i1" THEN s * Scale ELSE MaxStock * Scale]
    /\ purchases = PurchaseIds
    /\ \E q \in [PurchaseIds -> 1..MaxQty] :
          purchase_items = { WithQuantity(sh, q[sh.purchase_id]) : sh \in LineShapes }
    /\ pc = [d \in Dels |-> "idle"]
    /\ mutId = [d \in Dels |-> Null]
    /\ purchaseItems = [d \in Dels |-> << >>]
    /\ lineIdx = [d \in Dels |-> 0]
    /\ itemData = [d \in Dels |-> NoItem]
    /\ newStock = [d \in Dels |-> 0]
    /\ adjusted = [d \in Dels |-> {}]
    /\ skipped = [d \in Dels |-> {}]
    /\ delAlerts = 0
    /\ invalidated = 0
    /\ failures = 0
    /\ mutations = 0
    /\ initStock = stock
    /\ rolledBack = {}

\* handleDelete -> onConfirm -> deletePurchaseMutation.mutate(purchase.id)
Mutate(d, id) ==
    /\ UNCHANGED delOthers
    /\ pc[d] \in {"idle", "success", "error"}
    /\ mutations < MaxMutations
    /\ d = "d2" => pc["d1"] # "idle"   \* d1 names the client that deletes first
    /\ id \in purchases
    /\ pc' = [pc EXCEPT ![d] = "selectLines"]
    /\ mutId' = [mutId EXCEPT ![d] = id]
    /\ purchaseItems' = [purchaseItems EXCEPT ![d] = << >>]
    /\ lineIdx' = [lineIdx EXCEPT ![d] = 0]
    /\ itemData' = [itemData EXCEPT ![d] = NoItem]
    /\ newStock' = [newStock EXCEPT ![d] = 0]
    /\ adjusted' = [adjusted EXCEPT ![d] = {}]
    /\ skipped' = [skipped EXCEPT ![d] = {}]
    /\ mutations' = mutations + 1
    /\ UNCHANGED <<stock, purchases, purchase_items, delAlerts, invalidated, failures, initStock, rolledBack>>

\* select("item_id, quantity, unit").eq("purchase_id", id) answers
SelectLinesOk(d) ==
    /\ UNCHANGED delOthers
    /\ pc[d] = "selectLines"
    /\ \E order \in Orders({ r \in purchase_items : r.purchase_id = mutId[d] }) :
          /\ purchaseItems' = [purchaseItems EXCEPT ![d] = order]
          /\ lineIdx' = [lineIdx EXCEPT ![d] = 1]
          /\ pc' = [pc EXCEPT ![d] = IF Len(order) = 0 THEN "deletePurchase" ELSE "readItem"]
    /\ UNCHANGED <<stock, purchases, purchase_items, mutId, itemData, newStock, adjusted,
                   skipped, delAlerts, invalidated, failures, mutations, initStock, rolledBack>>

AlertsAfterSilentError(n) == n

\* onError, lines 191-194: console.error and one alert()
AlertsAfterOnError(n) == n + 1

\* itemsError: throw itemsError, then onError (console.error, alert)
SelectLinesFail(d) ==
    /\ UNCHANGED delOthers
    /\ pc[d] = "selectLines"
    /\ failures < MaxFailures
    /\ failures' = failures + 1
    /\ pc' = [pc EXCEPT ![d] = "error"]
    /\ delAlerts' = AlertsAfterOnError(delAlerts)
    /\ UNCHANGED <<stock, purchases, purchase_items, mutId, purchaseItems, lineIdx, itemData,
                   newStock, adjusted, skipped, invalidated, mutations, initStock, rolledBack>>

\* the item row is returned: newStock is computed and the update is sent
ReadItemOk(d) ==
    /\ UNCHANGED delOthers
    /\ pc[d] = "readItem"
    /\ itemData' = [itemData EXCEPT ![d] = SelectItem(CurrentLine(d).item_id)]
    /\ newStock' = [newStock EXCEPT ![d] = NewStock(CurrentLine(d), SelectItem(CurrentLine(d).item_id))]
    /\ pc' = [pc EXCEPT ![d] = "updateStock"]
    /\ UNCHANGED <<stock, purchases, purchase_items, mutId, purchaseItems, lineIdx, adjusted,
                   skipped, delAlerts, invalidated, failures, mutations, initStock, rolledBack>>

\* the read fails: data is null, its error is not looked at, the line is passed over
ReadItemFail(d) ==
    /\ UNCHANGED delOthers
    /\ pc[d] = "readItem"
    /\ failures < MaxFailures
    /\ failures' = failures + 1
    /\ itemData' = [itemData EXCEPT ![d] = NoItem]
    /\ skipped' = [skipped EXCEPT ![d] = @ \cup {CurrentLine(d)}]
    /\ lineIdx' = [lineIdx EXCEPT ![d] = @ + 1]
    /\ pc' = [pc EXCEPT ![d] = NextPc(d)]
    /\ UNCHANGED <<stock, purchases, purchase_items, mutId, purchaseItems, newStock, adjusted,
                   delAlerts, invalidated, mutations, initStock, rolledBack>>

\* the backend applies update({ stock: newStock }).eq("id", item.item_id)
UpdateStockOk(d) ==
    /\ UNCHANGED delOthers
    /\ pc[d] = "updateStock"
    /\ stock' = [stock EXCEPT ![CurrentLine(d).item_id] = WrittenStock(d)]
    /\ adjusted' = [adjusted EXCEPT ![d] = @ \cup {CurrentLine(d)}]
    /\ lineIdx' = [lineIdx EXCEPT ![d] = @ + 1]
    /\ pc' = [pc EXCEPT ![d] = NextPc(d)]
    /\ UNCHANGED <<purchases, purchase_items, mutId, purchaseItems, itemData, newStock,
                   skipped, delAlerts, invalidated, failures, mutations, initStock, rolledBack>>

\* the update fails: its result is not looked at, the loop goes on
UpdateStockFail(d) ==
    /\ UNCHANGED delOthers
    /\ pc[d] = "updateStock"
    /\ failures < MaxFailures
    /\ failures' = failures + 1
    /\ skipped' = [skipped EXCEPT ![d] = @ \cup {CurrentLine(d)}]
    /\ lineIdx' = [lineIdx EXCEPT ![d] = @ + 1]
    /\ pc' = [pc EXCEPT ![d] = NextPc(d)]
    /\ UNCHANGED <<stock, purchases, purchase_items, mutId, purchaseItems, itemData, newStock,
                   adjusted, delAlerts, invalidated, mutations, initStock, rolledBack>>

\* the tables after from("purchases").delete().eq("id", id) went through;
\* the rows of purchase_items go with their purchase
PurchasesAfterDelete(id) == purchases \ {id}

PurchasesAfterLostDelete(id) == purchases \ {id}

\* the delete answered with an error: the row stays, nothing is compensated
PurchasesAfterFailedDelete(id) == purchases

\* delete of the purchase row succeeds, then onSuccess invalidates ["purchases"]
DeletePurchaseOk(d) ==
    /\ UNCHANGED delOthers
    /\ pc[d] = "deletePurchase"
    /\ purchases' = PurchasesAfterDelete(mutId[d])
    /\ purchase_items' = { r \in purchase_items : r.purchase_id # mutId[d] }
    /\ invalidated' = invalidated + 1
    /\ pc' = [pc EXCEPT ![d] = "success"]
    /\ Return(d)
    /\ UNCHANGED <<stock, mutId, adjusted, skipped, delAlerts, failures, mutations, initStock, rolledBack>>

\* delete of the purchase row fails: throw error, then onError
DeletePurchaseFail(d) ==
    /\ UNCHANGED delOthers
    /\ pc[d] = "deletePurchase"
    /\ failures < MaxFailures
    /\ failures' = failures + 1
    /\ purchases' = PurchasesAfterFailedDelete(mutId[d])
    /\ pc' = [pc EXCEPT ![d] = "error"]
    /\ delAlerts' = AlertsAfterOnError(delAlerts)
    /\ rolledBack' = IF skipped[d] = {} THEN rolledBack \cup {mutId[d]} ELSE rolledBack
    /\ Return(d)
    /\ UNCHANGED <<stock, purchase_items, mutId, adjusted, skipped, invalidated, mutations,
                   initStock>>

Next ==
    \E d \in Dels :
        \/ \E id \in PurchaseIds : Mutate(d, id)
        \/ SelectLinesOk(d)
        \/ SelectLinesFail(d)
        \/ ReadItemOk(d)
        \/ ReadItemFail(d)
        \/ UpdateStockOk(d)
        \/ UpdateStockFail(d)
        \/ DeletePurchaseOk(d)
        \/ DeletePurchaseFail(d)

----------------------------------------------------------------------------
\* The CRUD mutations and their onError handlers

MasterDataMutations == {"addMutation", "updateMutation", "deleteMutation"}
PatientMutations ==
    {"createPatientMutation", "updatePatientMutation", "deletePatientMutation",
     "updatePatientImageMutation"}
Mutations == MasterDataMutations \cup PatientMutations \cup {"deletePurchaseMutation"}

\* whether the mutation's onError calls alert(); updatePatientImageMutation's
\* onError is console.error only
OnErrorAlerts(m) == m # "updatePatientImageMutation"

Total(f) == f["addMutation"] + f["updateMutation"] + f["deleteMutation"]
            + f["createPatientMutation"] + f["updatePatientMutation"]
            + f["deletePatientMutation"] + f["updatePatientImageMutation"]
            + f["deletePurchaseMutation"]

MutFrozen ==
    /\ mstatus = [m \in Mutations |-> "idle"]
    /\ mutateCalls = [m \in Mutations |-> 0]
    /\ writeCalls = [m \in Mutations |-> 0]
    /\ failedWrites = [m \in Mutations |-> 0]
    /\ alertCalls = [m \in Mutations |-> 0]
    /\ successCalls = [m \in Mutations |-> 0]

MutInit == MutFrozen

\* mutate(variables): mutationFn starts and sends its write
MutationStart(m) ==
    /\ UNCHANGED mutOthers
    /\ mstatus[m] = "idle"
    /\ Total(mutateCalls) < MaxCalls
    /\ mstatus' = [mstatus EXCEPT ![m] = "pending"]
    /\ mutateCalls' = [mutateCalls EXCEPT ![m] = @ + 1]
    /\ writeCalls' = [writeCalls EXCEPT ![m] = @ + 1]
    /\ UNCHANGED <<failedWrites, alertCalls, successCalls>>

\* the write went through: mutationFn returns, onSuccess runs
MutationSuccess(m) ==
    /\ UNCHANGED mutOthers
    /\ mstatus[m] = "pending"
    /\ mstatus' = [mstatus EXCEPT ![m] = "idle"]
    /\ successCalls' = [successCalls EXCEPT ![m] = @ + 1]
    /\ UNCHANGED <<mutateCalls, writeCalls, failedWrites, alertCalls>>

\* the write answered with an error: mutationFn throws, onError runs
MutationError(m) ==
    /\ UNCHANGED mutOthers
    /\ mstatus[m] = "pending"
    /\ failedWrites' = [failedWrites EXCEPT ![m] = @ + 1]
    /\ alertCalls' = [alertCalls EXCEPT ![m] = IF OnErrorAlerts(m) THEN @ + 1 ELSE @]
    /\ mstatus' = [mstatus EXCEPT ![m] = "idle"]   \* no retry option: not run again
    /\ UNCHANGED <<mutateCalls, writeCalls, successCalls>>

NextMut ==
    \E m \in Mutations :
        \/ MutationStart(m)
        \/ MutationSuccess(m)
        \/ MutationError(m)

----------------------------------------------------------------------------
\* The item form: price arithmetic and the recalculation effect (addItem.ts)

\* an optional number argument: given or undefined
Undefined == [given |-> FALSE, value |-> 0]
Given(v) == [given |-> TRUE, value |-> v]
ArgValues == {Undefined} \cup { Given(v) : v \in -1..MaxPrice }

\* margins in percent handed to calculateSellPriceFromMargin
Margins == {-150, -50, 0, 33, 50, 75}

\* rows of item_units, and the rates typed when a conversion is declared
AllUnits == << [id |-> "u1", name |-> "strip"], [id |-> "u2", name |-> "box"] >>
ConvUnits == { AllUnits[k] : k \in 1..Len(AllUnits) }
Rates == {2, 3}

\* a UnitConversion of unitConversionHook.conversions
NewConversion(unit, rate, basePrice, sellPrice) ==
    [to_unit_id |-> unit.id, unit_name |-> unit.name, unit |-> unit, conversion |-> rate,
     basePrice |-> basePrice, sellPrice |-> sellPrice, conversion_rate |-> rate]

\* Math.round of the fraction n / d (d > 0): the nearest integer, halves going up
Round(n, d) == (2 * n + d) \div (2 * d)

\* a number that is not an integer is kept as the fraction num / den
NullResult == [isNull |-> TRUE, num |-> 0, den |-> 1]

ProfitPercentageZeroAllowed(currentBasePrice, currentSellPrice) ==
    IF currentBasePrice >= 0 /\ currentSellPrice >= 0
    THEN [isNull |-> FALSE, num |-> (currentSellPrice - currentBasePrice) * 100,
          den |-> currentBasePrice]
    ELSE NullResult

\* calculateProfitPercentage, lines 145-148
ProfitPercentage(currentBasePrice, currentSellPrice) ==
    IF currentBasePrice > 0 /\ currentSellPrice >= 0
    THEN [isNull |-> FALSE, num |-> (currentSellPrice - currentBasePrice) * 100,
          den |-> currentBasePrice]
    ELSE NullResult

\* calculateSellPriceFromMargin, lines 829-833
SellPriceFromMargin(base_price, margin) ==
    IF base_price > 0 THEN Round(base_price * (100 + margin), 100) ELSE 0

\* the price of one unit derived from the price of the base unit
DerivedPrice(price, rate) == price * rate

\* unitConversionHook.recalculateBasePrices
RecalculateBasePrices(basePrice, sellPrice, convs) ==
    [k \in 1..Len(convs) |->
        [convs[k] EXCEPT !.basePrice = DerivedPrice(basePrice, convs[k].conversion_rate),
                         !.sellPrice = DerivedPrice(sellPrice, convs[k].conversion_rate)]]

RecalculationEffectOffByOne(basePrice, sellPrice, convs) ==
    IF basePrice > 0 /\ Len(convs) > 1
    THEN RecalculateBasePrices(basePrice, sellPrice, convs)
    ELSE convs

\* the effect of lines 365-377, run after a render that changed basePrice,
\* conversions.length or the hook object
RecalculationEffect(basePrice, sellPrice, convs) ==
    IF basePrice > 0 /\ Len(convs) > 0
    THEN RecalculateBasePrices(basePrice, sellPrice, convs)
    ELSE convs

NoCall == [fn |-> "none", base |-> 0, sell |-> 0, margin |-> 0, value |-> 0,
           result |-> NullResult]

FormFrozen ==
    /\ formData = [base_price |-> 0, sell_price |-> 0]
    /\ hookBasePrice = 0
    /\ hookSellPrice = 0
    /\ conversions = << >>
    /\ lastCall = NoCall

\* setInitialDataForForm() of a new item
FormInit == FormFrozen

\* handleChange, name = "base_price": formData, the hook's basePrice, then the effects
HandleChangeBasePrice(numericInt) ==
    /\ UNCHANGED formOthers
    /\ formData' = [formData EXCEPT !.base_price = numericInt]
    /\ hookBasePrice' = numericInt
    /\ conversions' = RecalculationEffect(numericInt, hookSellPrice, conversions)
    /\ UNCHANGED <<hookSellPrice, lastCall>>

\* handleChange, name = "sell_price"; the effect of lines 379-381 keeps the hook's
\* sellPrice equal to formData.sell_price
HandleChangeSellPrice(numericInt) ==
    /\ UNCHANGED formOthers
    /\ formData' = [formData EXCEPT !.sell_price = numericInt]
    /\ hookSellPrice' = numericInt
    /\ conversions' = RecalculationEffect(hookBasePrice, numericInt, conversions)
    /\ UNCHANGED <<hookBasePrice, lastCall>>

\* unitConversionHook.addUnitConversion from the form, then the effects
\* (conversions.length changed)
AddUnitConversion(unit, rate) ==
    /\ UNCHANGED formOthers
    /\ \A k \in 1..Len(conversions) : conversions[k].unit_name # unit.name
    /\ conversions' =
          RecalculationEffect(hookBasePrice, hookSellPrice,
              Append(conversions,
                     NewConversion(unit, rate, DerivedPrice(hookBasePrice, rate),
                                   DerivedPrice(hookSellPrice, rate))))
    /\ UNCHANGED <<formData, hookBasePrice, hookSellPrice, lastCall>>

\* unitConversionHook.removeUnitConversion, then the effects
RemoveUnitConversion(k) ==
    /\ UNCHANGED formOthers
    /\ k \in 1..Len(conversions)
    /\ conversions' =
          RecalculationEffect(hookBasePrice, hookSellPrice,
              SubSeq(conversions, 1, k - 1) \o SubSeq(conversions, k + 1, Len(conversions)))
    /\ UNCHANGED <<formData, hookBasePrice, hookSellPrice, lastCall>>

\* calculateProfitPercentage(base_price?, sell_price?)
CalculateProfitPercentage(base_price, sell_price) ==
    /\ UNCHANGED formOthers
    /\ LET currentBasePrice == IF base_price.given THEN base_price.value ELSE formData.base_price
           currentSellPrice == IF sell_price.given THEN sell_price.value ELSE formData.sell_price
       IN lastCall' = [fn |-> "calculateProfitPercentage", base |-> currentBasePrice,
                       sell |-> currentSellPrice, margin |-> 0, value |-> 0,
                       result |-> ProfitPercentage(currentBasePrice, currentSellPrice)]
    /\ UNCHANGED <<formData, hookBasePrice, hookSellPrice, conversions>>

\* calculateSellPriceFromMargin(margin)
CalculateSellPriceFromMargin(margin) ==
    /\ UNCHANGED formOthers
    /\ lastCall' = [fn |-> "calculateSellPriceFromMargin", base |-> formData.base_price,
                    sell |-> 0, margin |-> margin,
                    value |-> SellPriceFromMargin(formData.base_price, margin),
                    result |-> NullResult]
    /\ UNCHANGED <<formData, hookBasePrice, hookSellPrice, conversions>>

NextForm ==
    \/ \E v \in 0..MaxPrice : HandleChangeBasePrice(v)
    \/ \E v \in 0..MaxPrice : HandleChangeSellPrice(v)
    \/ \E u \in ConvUnits, r \in Rates : AddUnitConversion(u, r)
    \/ \E k \in 1..Cardinality(ConvUnits) : RemoveUnitConversion(k)

\* the form with the prices typed so far, before a call of the price arithmetic
CalcInit ==
    /\ formData \in [base_price : 0..MaxPrice, sell_price : 0..MaxPrice]
    /\ hookBasePrice = formData.base_price
    /\ hookSellPrice = formData.sell_price
    /\ conversions = << >>
    /\ lastCall = NoCall

NextCalc ==
    \/ \E b, s \in ArgValues : CalculateProfitPercentage(b, s)
    \/ \E m \in Margins : CalculateSellPriceFromMargin(m)

----------------------------------------------------------------------------
\* Saving and loading unit_conversions (addItem.ts handleSubmit / fetchItemData,
\* master-data-management fetchData)

\* the value of a number property that is not there
UndefinedNumber == -1

\* unit_conversions.map(...) of handleSubmit, lines 676-682 and 707-713
SubmittedConversion(uc) ==
    [unit_name |-> uc.unit.name, to_unit_id |-> uc.to_unit_id,
     conversion_rate |-> uc.conversion_rate, base_price |-> uc.basePrice,
     sell_price |-> uc.sellPrice]

SubmittedConversions(convs) == [k \in 1..Len(convs) |-> SubmittedConversion(convs[k])]

\* JSON text of an array of records: per record its members, each a key and a
\* number or a string
JsonMember(key, rec) ==
    IF key \in {"conversion_rate", "base_price", "sell_price"}
    THEN [key |-> key, isNumber |-> TRUE, number |-> rec[key], string |-> ""]
    ELSE [key |-> key, isNumber |-> FALSE, number |-> 0, string |-> rec[key]]

DbKeys == << "unit_name", "to_unit_id", "conversion_rate", "base_price", "sell_price" >>

JsonStringify(recs) ==
    [k \in 1..Len(recs) |-> [j \in 1..Len(DbKeys) |-> JsonMember(DbKeys[j], recs[k])]]

JsonParseObject(members) ==
    [key \in { members[j].key : j \in 1..Len(members) } |->
        LET m == members[CHOOSE j \in 1..Len(members) : members[j].key = key]
        IN  IF m.isNumber THEN m.number ELSE m.string]

JsonParse(text) == [k \in 1..Len(text) |-> JsonParseObject(text[k])]

NoValue == [kind |-> "null", text |-> << >>, array |-> << >>]

\* what a select hands back for items.unit_conversions: the array itself, or its
\* JSON text when the column holds text
ColumnValue(type, recs) ==
    IF type = "text"
    THEN [kind |-> "string", text |-> JsonStringify(recs), array |-> << >>]
    ELSE [kind |-> "array", text |-> << >>, array |-> recs]

\* fetchItemData lines 474-485 (and 422-433): string -> JSON.parse, else as is
ParseUnitConversions(value) ==
    IF value.kind = "null" THEN << >>
    ELSE IF value.kind = "string" THEN JsonParse(value.text)
    ELSE value.array

HasKey(rec, key) == key \in DOMAIN rec

\* conv.<key> || 0 for a number property
NumberOrZero(rec, key) == IF HasKey(rec, key) THEN rec[key] ELSE 0

\* units.find(u => u.name === name): its position in the list, 0 when absent
RECURSIVE FindUnitByName(_, _, _)
FindUnitByName(us, name, k) ==
    IF k > Len(us) THEN 0
    ELSE IF us[k].name = name THEN k
    ELSE FindUnitByName(us, name, k + 1)

LoadedConversionSwapped(conv, us) ==
    LET k == FindUnitByName(us, conv.unit_name, 1)
        unit == IF k > 0 THEN [id |-> us[k].id, name |-> us[k].name]
                ELSE [id |-> conv.to_unit_id, name |-> conv.unit_name]
    IN  NewConversion(unit, NumberOrZero(conv, "conversion_rate"),
                      NumberOrZero(conv, "sell_price"), NumberOrZero(conv, "base_price"))

\* the conversion fetchItemData hands to addUnitConversion, lines 487-520: the unit
\* found by name in units, or a placeholder with the stored id and name
LoadedConversion(conv, us) ==
    LET k == FindUnitByName(us, conv.unit_name, 1)
        unit == IF k > 0 THEN [id |-> us[k].id, name |-> us[k].name]
                ELSE [id |-> conv.to_unit_id, name |-> conv.unit_name]
    IN  NewConversion(unit, NumberOrZero(conv, "conversion_rate"),
                      NumberOrZero(conv, "base_price"), NumberOrZero(conv, "sell_price"))

\* the for loop of lines 486-521; typeof conv.conversion_rate === "number" holds for
\* every record that has the property
RECURSIVE LoadedConversions(_, _)
LoadedConversions(recs, us) ==
    IF recs = << >> THEN << >>
    ELSE IF HasKey(Head(recs), "conversion_rate")
         THEN << LoadedConversion(Head(recs), us) >> \o LoadedConversions(Tail(recs), us)
         ELSE LoadedConversions(Tail(recs), us)

\* mappedConversions of lines 435-460 (unit found by to_unit_id, then by name)
InitialConversion(conv, us) ==
    LET byId == { k \in 1..Len(us) : us[k].id = conv.to_unit_id }
        k == IF byId # {} THEN CHOOSE x \in byId : \A y \in byId : x <= y
             ELSE FindUnitByName(us, conv.unit_name, 1)
        unit == IF k > 0 THEN [id |-> us[k].id, name |-> us[k].name]
                ELSE [id |-> conv.to_unit_id, name |-> conv.unit_name]
    IN  [to_unit_id |-> unit.id, unit_name |-> conv.unit_name, unit |-> unit,
         conversion |-> NumberOrZero(conv, "conversion_rate"),
         basePrice |-> NumberOrZero(conv, "base_price"),
         sellPrice |-> NumberOrZero(conv, "sell_price"),
         conversion_rate |-> NumberOrZero(conv, "conversion_rate")]

\* conv.conversion_rate || conv.conversion
RateOrConversion(conv) ==
    IF HasKey(conv, "conversion_rate") /\ conv.conversion_rate # 0 THEN conv.conversion_rate
    ELSE IF HasKey(conv, "conversion") THEN conv.conversion
    ELSE UndefinedNumber

\* conv.<key> ?? 0
NumberOrZeroIfNullish(rec, key) == IF HasKey(rec, key) THEN rec[key] ELSE 0

\* mappedConversions of fetchData, lines 104-116
ListConversion(conv, us) ==
    LET k == FindUnitByName(us, conv.unit_name, 1)
    IN  [conversion_rate |-> RateOrConversion(conv),
         unit_name |-> conv.unit_name,
         to_unit_id |-> IF k > 0 THEN us[k].id ELSE "",
         unit |-> IF k > 0 THEN [id |-> us[k].id, name |-> us[k].name]
                  ELSE [id |-> "", name |-> conv.unit_name],
         conversion |-> RateOrConversion(conv),
         basePrice |-> NumberOrZeroIfNullish(conv, "basePrice"),
         sellPrice |-> NumberOrZeroIfNullish(conv, "sellPrice")]

\* fetchData lines 94-103: string -> JSON.parse, array as is
ListParse(value) ==
    IF value.kind = "string" THEN JsonParse(value.text)
    ELSE IF value.kind = "array" THEN value.array
    ELSE << >>

\* the conversions a user can have declared in the form: at most one per unit
DeclaredConversions ==
    LET One(u) == { NewConversion(u, r, b, p) :
                       r \in 1..MaxRate, b \in 0..MaxPrice, p \in 0..MaxPrice }
        u1 == AllUnits[1]
        u2 == AllUnits[2]
    IN  {<< >>} \cup { <<c>> : c \in One(u1) \cup One(u2) }
        \cup { <<c, e>> : c \in One(u1), e \in One(u2) }
        \cup { <<c, e>> : c \in One(u2), e \in One(u1) }

UnitLists == { << >>, AllUnits, << AllUnits[2] >> }

ConvFrozen ==
    /\ formPc = "add"
    /\ units = AllUnits
    /\ columnType = "jsonb"
    /\ unit_conversions = NoValue
    /\ initialUnitConversions = << >>
    /\ listConversions = << >>
    /\ savedConversions = << >>

\* a new-item form in which conversions have been declared; the item is not saved yet
ConvInit ==
    /\ formPc = "add"
    /\ units = AllUnits
    /\ columnType \in {"jsonb", "text"}
    /\ unit_conversions = NoValue
    /\ initialUnitConversions = << >>
    /\ listConversions = << >>
    /\ savedConversions = << >>
    /\ conversions \in DeclaredConversions
    /\ formData = [base_price |-> 0, sell_price |-> 0]
    /\ hookBasePrice = 0
    /\ hookSellPrice = 0
    /\ lastCall = NoCall

\* handleSubmit succeeds (insert or update), then onClose(): the form unmounts
HandleSubmit ==
    /\ UNCHANGED convOthers
    /\ formPc \in {"add", "edit"}
    /\ unit_conversions' = ColumnValue(columnType, SubmittedConversions(conversions))
    /\ savedConversions' = conversions
    /\ formPc' = "closed"
    /\ conversions' = << >>
    /\ initialUnitConversions' = << >>
    /\ units' = << >>
    /\ UNCHANGED <<columnType, listConversions>>

\* the form is opened on the saved item: fetchItemData(itemId) in the mount effect,
\* with the units list its closure holds. skipNextRecalculation() (line 469) keeps
\* the effect of lines 365-377 away from the prices just loaded.
FetchItemData(us) ==
    /\ UNCHANGED convOthers
    /\ formPc = "closed"
    /\ unit_conversions.kind # "null"
    /\ units' = us
    /\ initialUnitConversions' =
          LET recs == ParseUnitConversions(unit_conversions)
          IN  [k \in 1..Len(recs) |-> InitialConversion(recs[k], us)]
    /\ conversions' = LoadedConversions(ParseUnitConversions(unit_conversions), us)
    /\ formPc' = "edit"
    /\ UNCHANGED <<columnType, unit_conversions, listConversions, savedConversions>>

\* the item list loads the item: fetchData of useMasterDataManagement("items")
FetchData ==
    /\ UNCHANGED convOthers
    /\ unit_conversions.kind # "null"
    /\ listConversions' =
          LET recs == ListParse(unit_conversions)
          IN  [k \in 1..Len(recs) |-> ListConversion(recs[k], AllUnits)]
    /\ UNCHANGED <<formPc, units, columnType, unit_conversions, initialUnitConversions,
                   savedConversions, conversions>>

NextConv ==
    \/ HandleSubmit
    \/ \E us \in UnitLists : FetchItemData(us)
    \/ FetchData

----------------------------------------------------------------------------
\* Pagination of a list query: fetchData (master-data-management 49-153) and
\* fetchPurchases (purchase-list 109-128) compute the same from / to

Min(a, b) == IF a <= b THEN a ELSE b

PageSizes == 1..MaxLimit
Pages == 1..(MaxRows + 1)

\* the rows the query matches, in the order of its order(...) clause
OrderedResult == [k \in 1..totalRows |-> k]

\* const from = (page - 1) * limit
PageFrom(page, limit) == (page - 1) * limit

PageToOverlapping(from, limit) == from + limit

\* const to = from + limit - 1
PageTo(from, limit) == from + limit - 1

\* .range(from, to): the rows at the 0-based offsets from..to of the ordered result
Range(result, from, to) ==
    IF from >= Len(result) THEN << >>
    ELSE SubSeq(result, from + 1, Min(to + 1, Len(result)))

\* fetchData(page, searchTerm, limit): the page's rows and the exact count
FetchDataResult(page, limit) ==
    [data |-> Range(OrderedResult, PageFrom(page, limit), PageTo(PageFrom(page, limit), limit)),
     totalItems |-> totalRows]

\* Math.ceil(totalItems / itemsPerPage)
TotalPages(totalItems, limit) == (totalItems + limit - 1) \div limit

NoData == [data |-> << >>, totalItems |-> 0]

PageFrozen ==
    /\ totalRows = 0
    /\ currentPage = 1
    /\ itemsPerPage = 1
    /\ queryData = NoData
    /\ pagesSeen = {}

\* the list is mounted on page 1; the page size is one of the offered sizes
PageInit ==
    /\ totalRows \in 0..MaxRows
    /\ currentPage = 1
    /\ itemsPerPage \in PageSizes
    /\ queryData = NoData
    /\ pagesSeen = {}

\* handlePageChange(newPage)
HandlePageChange(newPage) ==
    /\ UNCHANGED pageOthers
    /\ newPage # currentPage
    /\ currentPage' = newPage
    /\ UNCHANGED <<totalRows, itemsPerPage, queryData, pagesSeen>>

\* handleItemsPerPageChange: setItemsPerPage(Number(value)); setCurrentPage(1)
HandleItemsPerPageChange(limit) ==
    /\ UNCHANGED pageOthers
    /\ limit # itemsPerPage
    /\ itemsPerPage' = limit
    /\ currentPage' = 1
    /\ pagesSeen' = {}
    /\ UNCHANGED <<totalRows, queryData>>

\* queryFn of the key [table, currentPage, debouncedSearch, itemsPerPage] answers
QueryFetched ==
    /\ UNCHANGED pageOthers
    /\ queryData' = FetchDataResult(currentPage, itemsPerPage)
    /\ pagesSeen' = { r \in pagesSeen : r.page # currentPage }
                       \cup { [page |-> currentPage,
                               rows |-> FetchDataResult(currentPage, itemsPerPage).data] }
    /\ UNCHANGED <<totalRows, currentPage, itemsPerPage>>

NextPage ==
    \/ \E newPage \in Pages : HandlePageChange(newPage)
    \/ \E limit \in PageSizes : HandleItemsPerPageChange(limit)
    \/ QueryFetched

----------------------------------------------------------------------------
\* The debounce effect: master-data-management 40-47 (500 ms, also resets the page)
\* and purchase-list 64-69 (250 ms)

DebounceMasterData == 500
DebouncePurchaseList == 250

\* time advances in steps of the shorter delay
TickMs == DebouncePurchaseList

Delay == IF hookKind = "masterData" THEN DebounceMasterData ELSE DebouncePurchaseList

SearchTerms == {"", "a", "ab"}

TimersAfterChangeKeepsOld(ts, value) == ts \cup { [value |-> value, elapsed |-> 0] }

\* the effect re-runs when search changes: its cleanup clears the pending timer,
\* then a new timer is set that captures the new value
TimersAfterChange(ts, value) == { [value |-> value, elapsed |-> 0] }

SearchFrozen ==
    /\ hookKind = "masterData"
    /\ search = ""
    /\ debouncedSearch = ""
    /\ timers = {}
    /\ heldFor = 0
    /\ typing = FALSE
    /\ cleared = {}
    /\ reached = {}

\* after mount: both terms are "", the effect has set its first timer
SearchInit ==
    /\ hookKind \in {"masterData", "purchaseList"}
    /\ search = ""
    /\ debouncedSearch = ""
    /\ timers = TimersAfterChange({}, "")
    /\ heldFor = 0
    /\ typing = TRUE
    /\ cleared = {}
    /\ reached = {}
    /\ PageFrozen

\* the search input changes: setSearch(value), then the effect
HandleSearchChange(value) ==
    /\ UNCHANGED searchOthers
    /\ typing
    /\ value # search
    /\ search' = value
    /\ timers' = TimersAfterChange(timers, value)
    /\ cleared' = cleared \cup { t.value : t \in timers \ timers' }
    /\ heldFor' = 0
    /\ UNCHANGED <<hookKind, debouncedSearch, typing, reached, currentPage>>

\* the user stops typing
StopTyping ==
    /\ UNCHANGED searchOthers
    /\ typing
    /\ typing' = FALSE
    /\ UNCHANGED <<hookKind, search, debouncedSearch, timers, heldFor, cleared, reached,
                   currentPage>>

\* TickMs pass while a timer is pending and none is due
Tick ==
    /\ UNCHANGED searchOthers
    /\ timers # {}
    /\ \A t \in timers : t.elapsed < Delay
    /\ timers' = { [value |-> t.value, elapsed |-> Min(t.elapsed + TickMs, Delay)] : t \in timers }
    /\ heldFor' = Min(heldFor + TickMs, Delay)
    /\ UNCHANGED <<hookKind, search, debouncedSearch, typing, cleared, reached, currentPage>>

\* a timer runs out: setDebouncedSearch(search captured); master data also
\* setCurrentPage(1)
TimerFires(t) ==
    /\ UNCHANGED searchOthers
    /\ t \in timers
    /\ t.elapsed >= Delay
    /\ debouncedSearch' = t.value
    /\ reached' = reached \cup {t.value}
    /\ currentPage' = IF hookKind = "masterData" THEN 1 ELSE currentPage
    /\ timers' = timers \ {t}
    /\ UNCHANGED <<hookKind, search, heldFor, typing, cleared>>

\* handlePageChange(newPage) of the same list
SearchPageChange(newPage) ==
    /\ UNCHANGED searchOthers
    /\ newPage # currentPage
    /\ currentPage' = newPage
    /\ UNCHANGED searchVars

TimerValues == { [value |-> v, elapsed |-> e] : v \in SearchTerms, e \in {0, TickMs, 2 * TickMs} }

NextSearch ==
    \/ \E value \in SearchTerms : HandleSearchChange(value)
    \/ StopTyping
    \/ Tick
    \/ \E t \in TimerValues : TimerFires(t)
    \/ \E newPage \in Pages : SearchPageChange(newPage)

----------------------------------------------------------------------------
\* The purchases query and its realtime subscription (purchase-list 55-62, 81)

NoResponse == [answered |-> FALSE, rows |-> {}]

StatusAfterIgnoredNotification(status) == status

\* invalidateQueries({ queryKey: ["purchases"] }) on the mounted query: it is
\* refetched, a fetch already in flight is cancelled and started again
StatusAfterInvalidate(status) == "fetching"

RtFrozen ==
    /\ notifications = 0
    /\ qStatus = "idle"
    /\ qResponse = NoResponse
    /\ shown = {}
    /\ changes = 0
    /\ fetchFailures = 0

\* after mount: the first fetch is in flight (refetchOnMount, and the effect of
\* lines 135-137), the channel is subscribed
RtInit ==
    /\ notifications = 0
    /\ qStatus = "fetching"
    /\ qResponse = NoResponse
    /\ shown = {}
    /\ changes = 0
    /\ fetchFailures = 0

\* some session deletes a row of purchases (its lines go with it); the backend
\* queues a notification for the subscribed channel
BackendDelete(id) ==
    /\ UNCHANGED rtOthers
    /\ changes < MaxChanges
    /\ id \in purchases
    /\ purchases' = purchases \ {id}
    /\ purchase_items' = { r \in purchase_items : r.purchase_id # id }
    /\ notifications' = notifications + 1
    /\ changes' = changes + 1
    /\ UNCHANGED <<qStatus, qResponse, shown, fetchFailures>>

\* some session inserts a row of purchases
BackendInsert(id) ==
    /\ UNCHANGED rtOthers
    /\ changes < MaxChanges
    /\ id \notin purchases
    /\ purchases' = purchases \cup {id}
    /\ notifications' = notifications + 1
    /\ changes' = changes + 1
    /\ UNCHANGED <<purchase_items, qStatus, qResponse, shown, fetchFailures>>

\* useSupabaseRealtime("purchases", ["purchases"]): a notification arrives and the
\* queries under ["purchases"] are invalidated
NotificationDelivered ==
    /\ UNCHANGED rtOthers
    /\ notifications > 0
    /\ notifications' = notifications - 1
    /\ qStatus' = StatusAfterInvalidate(qStatus)
    /\ qResponse' = IF qStatus' = "fetching" THEN NoResponse ELSE qResponse
    /\ UNCHANGED <<purchases, purchase_items, shown, changes, fetchFailures>>

\* the backend runs the select of fetchPurchases on the rows it has now
BackendAnswers ==
    /\ UNCHANGED rtOthers
    /\ qStatus = "fetching"
    /\ ~qResponse.answered
    /\ qResponse' = [answered |-> TRUE, rows |-> purchases]
    /\ UNCHANGED <<purchases, purchase_items, notifications, qStatus, shown, changes,
                   fetchFailures>>

\* the select fails: fetchPurchases throws and the query retries
FetchFails ==
    /\ UNCHANGED rtOthers
    /\ qStatus = "fetching"
    /\ ~qResponse.answered
    /\ fetchFailures < MaxFailures
    /\ fetchFailures' = fetchFailures + 1
    /\ UNCHANGED <<purchases, purchase_items, notifications, qStatus, qResponse, shown, changes>>

\* fetchPurchases returns: the list shows the rows of the answer
FetchSettles ==
    /\ UNCHANGED rtOthers
    /\ qStatus = "fetching"
    /\ qResponse.answered
    /\ shown' = qResponse.rows
    /\ qStatus' = "idle"
    /\ qResponse' = NoResponse
    /\ UNCHANGED <<purchases, purchase_items, notifications, changes, fetchFailures>>

NextRt ==
    \/ \E id \in PurchaseIds : BackendDelete(id)
    \/ \E id \in PurchaseIds : BackendInsert(id)
    \/ NotificationDelivered
    \/ BackendAnswers
    \/ FetchFails
    \/ FetchSettles

----------------------------------------------------------------------------
\* Item-code generation (addItem.ts 309-363) and the insert of handleSubmit

Forms == {"f1", "f2"}

\* rows of item_types, item_units, item_categories and the letters
\* generateTypeCode / generateUnitCode / generateCategoryCode give them
TypeIds == {"t1", "t2"}
UnitIds == {"u1"}
CategoryIds == {"c1"}
TypeCode(id) == IF id = "t1" THEN "B" ELSE "K"    \* "Obat Bebas", "Obat Keras"
UnitCode(id) == "S"                                \* "Strip"
CategoryCode(id) == "AB"                           \* "Antibiotik"

NoSelection == [type_id |-> "", category_id |-> "", unit_id |-> ""]

Complete(sel) == sel.type_id # "" /\ sel.category_id # "" /\ sel.unit_id # ""

\* codePrefix = `${typeCode}${unitCode}${categoryCode}`
CodePrefix(sel) == << TypeCode(sel.type_id), UnitCode(sel.unit_id), CategoryCode(sel.category_id) >>

\* Number.prototype.toString: the decimal digits
RECURSIVE DigitsOf(_)
DigitsOf(n) == IF n < 10 THEN << n >> ELSE Append(DigitsOf(n \div 10), n % 10)

\* sequence.toString().padStart(2, "0")
ToSequenceStr(n) == IF Len(DigitsOf(n)) < 2 THEN << 0 >> \o DigitsOf(n) ELSE DigitsOf(n)

\* parseInt of a string of digits
RECURSIVE ParseInt(_)
ParseInt(ds) ==
    IF ds = << >> THEN 0 ELSE 10 * ParseInt(SubSeq(ds, 1, Len(ds) - 1)) + ds[Len(ds)]

\* string order of two digit strings, as order("code") compares the codes of one
\* prefix
RECURSIVE StrLess(_, _)
StrLess(a, b) ==
    IF b = << >> THEN FALSE
    ELSE IF a = << >> THEN TRUE
    ELSE IF Head(a) # Head(b) THEN Head(a) < Head(b)
    ELSE StrLess(Tail(a), Tail(b))

NoCode == [prefix |-> << >>, seqStr |-> << >>]

\* select("code").ilike("code", `${codePrefix}%`).order("code", desc): data[0], or
\* NoCode when no row matches
HighestCode(codes, prefix) ==
    LET matching == { k \in 1..Len(codes) : codes[k].prefix = prefix }
    IN  IF matching = {} THEN NoCode
        ELSE codes[CHOOSE k \in matching :
                      \A j \in matching : ~StrLess(codes[k].seqStr, codes[j].seqStr)]

\* lines 326-335: sequence, sequenceStr, generatedCode
GeneratedCode(prefix, data) ==
    [prefix |-> prefix,
     seqStr |-> ToSequenceStr(IF data = NoCode THEN 1 ELSE ParseInt(data.seqStr) + 1)]

AppliesOnlyIfCurrent(req, sel) == Complete(sel) /\ req.prefix = CodePrefix(sel)

\* lines 336-339: setFormData writes the generated code, whatever the form's
\* selection has become since the lookup started
AppliesResult(req, sel) == TRUE

InsertItemUnique(codes, code) ==
    IF \E k \in 1..Len(codes) : codes[k] = code THEN codes ELSE Append(codes, code)

\* from("items").insert(mainItemData): a new row with formData.code
InsertItem(codes, code) == Append(codes, code)

NoFormCode == [code |-> NoCode, readAt |-> 0, fromError |-> FALSE]

CodeFrozen ==
    /\ itemCodes = << >>
    /\ formOpen = [f \in Forms |-> FALSE]
    /\ selection = [f \in Forms |-> NoSelection]
    /\ formCode = [f \in Forms |-> NoFormCode]
    /\ lookups = {}
    /\ lookupCount = 0
    /\ lookupFailures = 0

\* two add-item forms are open (two sessions); nothing is selected yet
CodeInit ==
    /\ itemCodes = << >>
    /\ formOpen = [f \in Forms |-> TRUE]
    /\ selection = [f \in Forms |-> NoSelection]
    /\ formCode = [f \in Forms |-> NoFormCode]
    /\ lookups = {}
    /\ lookupCount = 0
    /\ lookupFailures = 0

\* handleSelectChange, then the effect of lines 309-363: with type, category and
\* unit all selected generateItemCode() starts and its select is sent
HandleSelectChange(f, name, value) ==
    /\ UNCHANGED codeOthers
    /\ formOpen[f]
    /\ selection[f][name] # value
    /\ lookupCount < MaxLookups
    /\ LET sel == [selection[f] EXCEPT ![name] = value]
       IN  /\ selection' = [selection EXCEPT ![f] = sel]
           /\ IF Complete(sel)
              THEN /\ lookups' = lookups \cup
                        { [id |-> lookupCount + 1, form |-> f, prefix |-> CodePrefix(sel),
                           answered |-> FALSE, data |-> NoCode, readAt |-> 0,
                           fromError |-> FALSE] }
                   /\ lookupCount' = lookupCount + 1
              ELSE UNCHANGED <<lookups, lookupCount>>
    /\ UNCHANGED <<itemCodes, formOpen, formCode, lookupFailures>>

\* the lookup in flight that was started as the id-th
Lookup(id) == CHOOSE r \in lookups : r.id = id

\* the backend runs the select of a lookup on the rows it has now
LookupAnswered(id) ==
    LET req == Lookup(id) IN
    /\ UNCHANGED codeOthers
    /\ \E r \in lookups : r.id = id
    /\ ~req.answered
    /\ lookups' = (lookups \ {req}) \cup
          { [id |-> req.id, form |-> req.form, prefix |-> req.prefix, answered |-> TRUE,
             data |-> HighestCode(itemCodes, req.prefix), readAt |-> Len(itemCodes),
             fromError |-> FALSE] }
    /\ UNCHANGED <<itemCodes, formOpen, selection, formCode, lookupCount, lookupFailures>>

\* the select answers with an error: data is null, the error is not looked at
LookupFails(id) ==
    LET req == Lookup(id) IN
    /\ UNCHANGED codeOthers
    /\ \E r \in lookups : r.id = id
    /\ ~req.answered
    /\ lookupFailures < MaxFailures
    /\ lookupFailures' = lookupFailures + 1
    /\ lookups' = (lookups \ {req}) \cup
          { [id |-> req.id, form |-> req.form, prefix |-> req.prefix, answered |-> TRUE,
             data |-> NoCode, readAt |-> Len(itemCodes), fromError |-> TRUE] }
    /\ UNCHANGED <<itemCodes, formOpen, selection, formCode, lookupCount>>

\* the await returns: the code is generated and written with setFormData (a form
\* that was closed in between has no state left to write)
LookupReturns(id) ==
    LET req == Lookup(id) IN
    /\ UNCHANGED codeOthers
    /\ \E r \in lookups : r.id = id
    /\ req.answered
    /\ lookups' = lookups \ {req}
    /\ formCode' =
          IF formOpen[req.form] /\ AppliesResult(req, selection[req.form])
          THEN [formCode EXCEPT ![req.form] =
                    [code |-> GeneratedCode(req.prefix, req.data), readAt |-> req.readAt,
                     fromError |-> req.fromError]]
          ELSE formCode
    /\ UNCHANGED <<itemCodes, formOpen, selection, lookupCount, lookupFailures>>

\* handleSubmit of a new item: the insert goes through, then onClose()
SubmitNewItem(f) ==
    /\ UNCHANGED codeOthers
    /\ formOpen[f]
    /\ formCode[f].code # NoCode
    /\ itemCodes' = InsertItem(itemCodes, formCode[f].code)
    /\ formOpen' = [formOpen EXCEPT ![f] = FALSE]
    /\ UNCHANGED <<selection, formCode, lookups, lookupCount, lookupFailures>>


\* the code of the item created as the n-th of its prefix
CodeOf(prefix, n) == [prefix |-> prefix, seqStr |-> ToSequenceStr(n)]

\* tables of items the forms may find, in insertion order: empty, one row, and rows
\* whose sequence numbers have two and three digits ("...99", "...100")
ItemTables ==
    LET p == << "B", "S", "AB" >>
    IN  { << >>,
          << CodeOf(p, 1) >>,
          << CodeOf(p, 9), CodeOf(p, 10) >>,
          << CodeOf(p, 99) >>,
          << CodeOf(p, 99), CodeOf(p, 100) >> }

\* the forms open on a table of items that already has rows
CodeInitWithRows ==
    /\ itemCodes \in ItemTables
    /\ formOpen = [f \in Forms |-> TRUE]
    /\ selection = [f \in Forms |-> NoSelection]
    /\ formCode = [f \in Forms |-> NoFormCode]
    /\ lookups = {}
    /\ lookupCount = 0
    /\ lookupFailures = 0
NextCode ==
    \/ \E f \in Forms :
          \/ \E value \in TypeIds : HandleSelectChange(f, "type_id", value)
          \/ \E value \in CategoryIds : HandleSelectChange(f, "category_id", value)
          \/ \E value \in UnitIds : HandleSelectChange(f, "unit_id", value)
    \/ \E id \in 1..MaxLookups : LookupAnswered(id)
    \/ \E id \in 1..MaxLookups : LookupFails(id)
    \/ \E id \in 1..MaxLookups : LookupReturns(id)
    \/ \E f \in Forms : SubmitNewItem(f)

----------------------------------------------------------------------------
\* useMasterDataManagement: the three mutations, the modals and the query cache
\* (master-data-management 21-38, 173-244)

TableNames == {"item_categories", "item_units"}

\* query keys [tableName, currentPage, ...] that can be in the cache
QueryKeys == { [table |-> t, page |-> p] : t \in TableNames, p \in 1..2 }

NoEditingItem == [id |-> ""]
MasterDataItems == { [id |-> "x1"], [id |-> "x2"] }

InvalidateExactKey(cache, table) == cache

\* queryClient.invalidateQueries({ queryKey: [tableName] }): every cached query
\* whose key starts with tableName becomes stale
InvalidateQueries(cache, table) ==
    [k \in QueryKeys |-> IF k.table = table /\ cache[k] # "absent" THEN "stale" ELSE cache[k]]

\* the 300 ms of the clear timer (line 36), counted in ticks of 100 ms
ClearTicks == 3

\* no timer pending; a pending timer is <<ticks elapsed since it was set>>
NoClearTimer == <<>>

ClearTimerAfterEffectKeepsTimer(timer, open, item, open2, item2) ==
    IF ~open2 /\ item2 # NoEditingItem /\ timer = NoClearTimer THEN <<0>> ELSE timer

\* the effect of lines 30-38 after a render: when editingItem or isEditModalOpen
\* changed, the cleanup clears the pending timer and the effect sets a new one if
\* the modal is closed and editingItem is set
ClearTimerAfterEffect(timer, open, item, open2, item2) ==
    IF open2 = open /\ item2 = item
    THEN timer
    ELSE IF ~open2 /\ item2 # NoEditingItem THEN <<0>> ELSE NoClearTimer

CrudFrozen ==
    /\ tableName = "item_categories"
    /\ isAddModalOpen = FALSE
    /\ isEditModalOpen = FALSE
    /\ editingItem = NoEditingItem
    /\ queryCache = [k \in QueryKeys |-> "absent"]
    /\ crudStatus = [m \in MasterDataMutations |-> "idle"]
    /\ crudCalls = 0
    /\ crudAlerts = 0
    /\ clearTimer = NoClearTimer

\* the hook is mounted for one table; the cache may hold queries of any table
CrudInit ==
    /\ tableName \in TableNames
    /\ isAddModalOpen = FALSE
    /\ isEditModalOpen = FALSE
    /\ editingItem = NoEditingItem
    /\ queryCache \in [QueryKeys -> {"absent", "fresh"}]
    /\ crudStatus = [m \in MasterDataMutations |-> "idle"]
    /\ crudCalls = 0
    /\ crudAlerts = 0
    /\ clearTimer = NoClearTimer

\* setIsAddModalOpen(open), called by the page
SetIsAddModalOpen(open) ==
    /\ UNCHANGED crudOthers
    /\ isAddModalOpen # open
    /\ isAddModalOpen' = open
    /\ UNCHANGED <<tableName, isEditModalOpen, editingItem, queryCache, crudStatus, crudCalls,
                   crudAlerts, clearTimer>>

\* handleEdit(item)
HandleEdit(item) ==
    /\ UNCHANGED crudOthers
    /\ ~isEditModalOpen
    /\ editingItem' = item
    /\ isEditModalOpen' = TRUE
    /\ UNCHANGED <<tableName, isAddModalOpen, queryCache, crudStatus, crudCalls, crudAlerts>>
    /\ clearTimer' = ClearTimerAfterEffect(clearTimer, isEditModalOpen, editingItem,
                                          isEditModalOpen', editingItem')

\* setIsEditModalOpen(false): the edit modal is closed by the user
CloseEditModal ==
    /\ UNCHANGED crudOthers
    /\ isEditModalOpen
    /\ isEditModalOpen' = FALSE
    /\ UNCHANGED <<tableName, isAddModalOpen, editingItem, queryCache, crudStatus, crudCalls,
                   crudAlerts>>
    /\ clearTimer' = ClearTimerAfterEffect(clearTimer, isEditModalOpen, editingItem,
                                          isEditModalOpen', editingItem')

\* the timer of lines 33-35 fires 300 ms after it was set: setEditingItem(null)
EditingItemTimeout ==
    /\ UNCHANGED crudOthers
    /\ clearTimer # NoClearTimer
    /\ clearTimer[1] >= ClearTicks
    /\ editingItem' = NoEditingItem
    /\ clearTimer' = NoClearTimer
    /\ UNCHANGED <<tableName, isAddModalOpen, isEditModalOpen, queryCache, crudStatus,
                   crudCalls, crudAlerts>>

\* handleModalSubmit(itemData): updateMutation when itemData.id, else addMutation
HandleModalSubmit(id) ==
    LET m == IF id # "" THEN "updateMutation" ELSE "addMutation" IN
    /\ UNCHANGED crudOthers
    /\ crudCalls < MaxCalls
    /\ IF id # "" THEN isEditModalOpen /\ editingItem.id = id ELSE isAddModalOpen
    /\ crudStatus[m] # "pending"
    /\ crudStatus' = [crudStatus EXCEPT ![m] = "pending"]
    /\ crudCalls' = crudCalls + 1
    /\ UNCHANGED <<tableName, isAddModalOpen, isEditModalOpen, editingItem, queryCache,
                   crudAlerts, clearTimer>>

\* deleteMutation.mutate(itemId), called by the page for the item being edited
DeleteMutate ==
    /\ UNCHANGED crudOthers
    /\ crudCalls < MaxCalls
    /\ isEditModalOpen
    /\ editingItem # NoEditingItem
    /\ crudStatus["deleteMutation"] # "pending"
    /\ crudStatus' = [crudStatus EXCEPT !["deleteMutation"] = "pending"]
    /\ crudCalls' = crudCalls + 1
    /\ UNCHANGED <<tableName, isAddModalOpen, isEditModalOpen, editingItem, queryCache,
                   crudAlerts, clearTimer>>

\* the write of mutation m went through: onSuccess
CrudWriteOk(m) ==
    /\ UNCHANGED crudOthers
    /\ crudStatus[m] = "pending"
    /\ crudStatus' = [crudStatus EXCEPT ![m] = "success"]
    /\ queryCache' = InvalidateQueries(queryCache, tableName)
    /\ IF m = "addMutation"
       THEN /\ isAddModalOpen' = FALSE
            /\ UNCHANGED <<isEditModalOpen, editingItem>>
       ELSE /\ isEditModalOpen' = FALSE
            /\ editingItem' = NoEditingItem
            /\ UNCHANGED isAddModalOpen
    /\ UNCHANGED <<tableName, crudCalls, crudAlerts>>
    /\ clearTimer' = ClearTimerAfterEffect(clearTimer, isEditModalOpen, editingItem,
                                          isEditModalOpen', editingItem')

\* the write answered with an error: mutationFn throws, onError alerts
CrudWriteFails(m) ==
    /\ UNCHANGED crudOthers
    /\ crudStatus[m] = "pending"
    /\ crudStatus' = [crudStatus EXCEPT ![m] = "error"]
    /\ crudAlerts' = crudAlerts + 1
    /\ UNCHANGED <<tableName, isAddModalOpen, isEditModalOpen, editingItem, queryCache,
                   crudCalls,
                   clearTimer>>

\* a stale query of the cache is refetched
QueryRefetched(k) ==
    /\ UNCHANGED crudOthers
    /\ queryCache[k] = "stale"
    /\ queryCache' = [queryCache EXCEPT ![k] = "fresh"]
    /\ UNCHANGED <<tableName, isAddModalOpen, isEditModalOpen, editingItem, crudStatus,
                   crudCalls, crudAlerts, clearTimer>>

\* 100 ms pass while the clear timer is pending
ClearTimerTick ==
    /\ UNCHANGED crudOthers
    /\ clearTimer # NoClearTimer
    /\ clearTimer[1] < ClearTicks
    /\ clearTimer' = <<clearTimer[1] + 1>>
    /\ UNCHANGED <<tableName, isAddModalOpen, isEditModalOpen, editingItem, queryCache,
                   crudStatus, crudCalls, crudAlerts>>

NextCrud ==
    \/ \E open \in BOOLEAN : SetIsAddModalOpen(open)
    \/ \E item \in MasterDataItems : HandleEdit(item)
    \/ CloseEditModal
    \/ EditingItemTimeout
    \/ ClearTimerTick
    \/ \E id \in {""} \cup { item.id : item \in MasterDataItems } : HandleModalSubmit(id)
    \/ DeleteMutate
    \/ \E m \in MasterDataMutations : CrudWriteOk(m)
    \/ \E m \in MasterDataMutations : CrudWriteFails(m)
    \/ \E k \in QueryKeys : QueryRefetched(k)

----------------------------------------------------------------------------
\* The item form from mount to unmount (addItem.ts 91-307, 655-748, 836-862) and
\* the draft it keeps in sessionStorage under CACHE_KEY

\* values of formData: the blank form, what the user typed, the stored item
FormValues == {"", "a", "s"}
StoredItem == "s"

NoDraft == [present |-> FALSE, formData |-> ""]
Draft(fd) == [present |-> TRUE, formData |-> fd]

\* isDirty(), lines 161-205
IsDirty(initial, fd) == initial # Null /\ fd # initial

NoRefs == [isEditMode |-> FALSE, isDirty |-> FALSE, formData |-> "", saving |-> FALSE]

\* the effect without dependencies, lines 285-291: after every render the refs
\* hold the values of that render
RefsAfterRender ==
    latest' = [isEditMode |-> itemId' # Null,
               isDirty |-> IsDirty(initialFormData', itemFormData'),
               formData |-> itemFormData',
               saving |-> saving']

\* the unmount cleanup, lines 293-307
CacheAfterCleanup(cache, refs) ==
    IF ~refs.isEditMode /\ refs.isDirty /\ ~refs.saving THEN Draft(refs.formData) ELSE cache

ItemFormFrozen ==
    /\ mounted = FALSE
    /\ itemId = Null
    /\ initialFormData = Null
    /\ itemFormData = ""
    /\ fetchPending = FALSE
    /\ saving = FALSE
    /\ submitPending = FALSE
    /\ latest = NoRefs
    /\ sessionCache = NoDraft
    /\ confirmOpen = FALSE
    /\ closeCalls = {}
    /\ savedInAddMode = FALSE
    /\ submitFailures = 0

\* no form is mounted; sessionStorage holds no draft
ItemFormInit == ItemFormFrozen

\* the component mounts with the itemId prop id; the initialisation effect of lines
\* 247-275 runs once
Mount(id) ==
    /\ UNCHANGED itemFormOthers
    /\ ~mounted /\ ~submitPending
    /\ mounted' = TRUE
    /\ itemId' = id
    /\ saving' = FALSE
    /\ confirmOpen' = FALSE
    /\ closeCalls' = {}
    /\ savedInAddMode' = FALSE
    /\ IF id # Null
       THEN /\ fetchPending' = TRUE
            /\ sessionCache' = NoDraft
            /\ initialFormData' = Null
            /\ itemFormData' = ""
       ELSE /\ fetchPending' = FALSE
            /\ sessionCache' = sessionCache
            /\ initialFormData' = (IF sessionCache.present THEN sessionCache.formData ELSE "")
            /\ itemFormData' = (IF sessionCache.present THEN sessionCache.formData ELSE "")
    /\ UNCHANGED <<submitPending, submitFailures>>
    /\ RefsAfterRender

\* fetchItemData: the item row came back, lines 398-420
FetchItemDataOk ==
    /\ UNCHANGED itemFormOthers
    /\ mounted /\ fetchPending
    /\ fetchPending' = FALSE
    /\ itemFormData' = StoredItem
    /\ initialFormData' = StoredItem
    /\ UNCHANGED <<mounted, itemId, saving, submitPending, sessionCache, confirmOpen,
                   closeCalls, savedInAddMode, submitFailures>>
    /\ RefsAfterRender

\* fetchItemData: the select failed; initialFormData stays null
FetchItemDataFails ==
    /\ UNCHANGED itemFormOthers
    /\ mounted /\ fetchPending
    /\ fetchPending' = FALSE
    /\ UNCHANGED <<mounted, itemId, initialFormData, itemFormData, saving, submitPending,
                   sessionCache, confirmOpen, closeCalls, savedInAddMode, submitFailures>>
    /\ RefsAfterRender

\* handleChange / updateFormData: the user edits a field
HandleChange(value) ==
    /\ UNCHANGED itemFormOthers
    /\ mounted /\ closeCalls = {} /\ ~confirmOpen
    /\ itemFormData # value
    /\ itemFormData' = value
    /\ UNCHANGED <<mounted, itemId, initialFormData, fetchPending, saving, submitPending,
                   sessionCache, confirmOpen, closeCalls, savedInAddMode, submitFailures>>
    /\ RefsAfterRender

\* handleSubmit up to its await, lines 655-719: setSaving(true), the write is sent
HandleSubmitStart ==
    /\ UNCHANGED itemFormOthers
    /\ mounted /\ ~submitPending /\ closeCalls = {} /\ ~confirmOpen
    /\ saving' = TRUE
    /\ submitPending' = TRUE
    /\ UNCHANGED <<mounted, itemId, initialFormData, itemFormData, fetchPending, sessionCache,
                   confirmOpen, closeCalls, savedInAddMode, submitFailures>>
    /\ RefsAfterRender

\* the write went through, lines 720-742: sessionStorage.removeItem(CACHE_KEY),
\* onClose(), finally setSaving(false). onClose is the caller's: it unmounts the
\* form in the same commit (the cleanup then sees the refs of the last render), or
\* keeps it mounted while it closes (the form renders again with saving = false).
SubmitOk(unmountNow) ==
    /\ UNCHANGED itemFormOthers
    /\ submitPending
    /\ submitPending' = FALSE
    /\ savedInAddMode' = (itemId = Null)
    /\ UNCHANGED <<itemId, initialFormData, itemFormData, fetchPending, confirmOpen,
                   submitFailures>>
    /\ IF ~mounted
       THEN /\ sessionCache' = NoDraft
            /\ UNCHANGED <<mounted, saving, latest, closeCalls>>
       ELSE /\ closeCalls' = closeCalls \cup
                  { [via |-> "submit", dirty |-> IsDirty(initialFormData, itemFormData)] }
            /\ IF unmountNow
               THEN /\ mounted' = FALSE
                    /\ sessionCache' = CacheAfterCleanup(NoDraft, latest)
                    /\ UNCHANGED <<saving, latest>>
               ELSE /\ mounted' = mounted
                    /\ sessionCache' = NoDraft
                    /\ saving' = FALSE
                    /\ RefsAfterRender

\* the write failed, lines 743-748: console.error, alert, finally setSaving(false)
SubmitFails ==
    /\ UNCHANGED itemFormOthers
    /\ submitPending
    /\ submitFailures < MaxFailures
    /\ submitFailures' = submitFailures + 1
    /\ submitPending' = FALSE
    /\ saving' = FALSE
    /\ UNCHANGED <<mounted, itemId, initialFormData, itemFormData, fetchPending, sessionCache,
                   confirmOpen, closeCalls, savedInAddMode>>
    /\ IF mounted THEN RefsAfterRender ELSE latest' = latest

CloseCallsAfterCancelAlwaysCloses(dirty) ==
    closeCalls \cup { [via |-> "cancel", dirty |-> dirty] }

\* handleCancel, lines 836-862: what has been called for closing once it returns
CloseCallsAfterCancel(dirty) ==
    IF dirty THEN closeCalls ELSE closeCalls \cup { [via |-> "cancel", dirty |-> dirty] }

\* handleCancel(setIsClosing)
HandleCancel ==
    /\ UNCHANGED itemFormOthers
    /\ mounted /\ ~confirmOpen /\ closeCalls = {}
    /\ confirmOpen' = IsDirty(initialFormData, itemFormData)
    /\ closeCalls' = CloseCallsAfterCancel(IsDirty(initialFormData, itemFormData))
    /\ UNCHANGED <<mounted, itemId, initialFormData, itemFormData, fetchPending, saving,
                   submitPending, latest, sessionCache, savedInAddMode, submitFailures>>

\* the dialog's onConfirm, lines 846-852
ConfirmLeave ==
    /\ UNCHANGED itemFormOthers
    /\ mounted /\ confirmOpen
    /\ confirmOpen' = FALSE
    /\ closeCalls' = closeCalls \cup
          { [via |-> "confirm", dirty |-> IsDirty(initialFormData, itemFormData)] }
    /\ UNCHANGED <<mounted, itemId, initialFormData, itemFormData, fetchPending, saving,
                   submitPending, latest, sessionCache, savedInAddMode, submitFailures>>

\* the dialog is dismissed ("Batal"): nothing is called
ConfirmStay ==
    /\ UNCHANGED itemFormOthers
    /\ mounted /\ confirmOpen
    /\ confirmOpen' = FALSE
    /\ UNCHANGED <<mounted, itemId, initialFormData, itemFormData, fetchPending, saving,
                   submitPending, latest, sessionCache, closeCalls, savedInAddMode,
                   submitFailures>>

\* the component unmounts after onClose / setIsClosing(true) was called: the cleanup
\* of lines 293-307 runs on the refs
Unmount ==
    /\ UNCHANGED itemFormOthers
    /\ mounted /\ closeCalls # {}
    /\ mounted' = FALSE
    /\ fetchPending' = FALSE
    /\ confirmOpen' = FALSE
    /\ sessionCache' = CacheAfterCleanup(sessionCache, latest)
    /\ UNCHANGED <<itemId, initialFormData, itemFormData, saving, submitPending, latest,
                   closeCalls, savedInAddMode, submitFailures>>

NextItemForm ==
    \/ \E id \in {Null, "item1"} : Mount(id)
    \/ FetchItemDataOk
    \/ FetchItemDataFails
    \/ \E value \in FormValues : HandleChange(value)
    \/ HandleSubmitStart
    \/ \E unmountNow \in BOOLEAN : SubmitOk(unmountNow)
    \/ SubmitFails
    \/ HandleCancel
    \/ ConfirmLeave
    \/ ConfirmStay
    \/ Unmount

----------------------------------------------------------------------------
\* MainLayout and Sidebar (layout/main/index.tsx 6-45, 262-282, 310-327)

MaxToggles == 6    \* clicks on the lock button in one behaviour

NoTimeout == [set |-> FALSE, isLocked |-> FALSE]

\* the state a render commits
StateNow == [collapsed |-> sidebarCollapsed, isLocked |-> isLocked]

\* the updater of toggleLock, lines 28-34: sidebarCollapsed is the value of the
\* render that made the callback
CollapsedAfterLock(collapsed, newLockState, closureCollapsed) ==
    IF newLockState /\ closureCollapsed THEN FALSE ELSE collapsed

SidebarFrozen ==
    /\ sidebarCollapsed = FALSE
    /\ isLocked = FALSE
    /\ isLockedRef = FALSE
    /\ rendered = [collapsed |-> FALSE, isLocked |-> FALSE]
    /\ autoCollapse = "done"
    /\ hoverTimeout = NoTimeout
    /\ hovering = FALSE
    /\ toggles = 0

\* MainLayout has mounted: expanded, unlocked, the 1-second timer is running; the
\* pointer is over the sidebar or not
SidebarInit ==
    /\ sidebarCollapsed = FALSE
    /\ isLocked = FALSE
    /\ isLockedRef = FALSE
    /\ rendered = [collapsed |-> FALSE, isLocked |-> FALSE]
    /\ autoCollapse = "pending"
    /\ hoverTimeout = NoTimeout
    /\ hovering \in BOOLEAN
    /\ toggles = 0

\* React commits a render of the updates made so far; the effect of lines 11-13
\* copies isLocked into the ref
Render ==
    /\ UNCHANGED sidebarOthers
    /\ rendered # StateNow
    /\ rendered' = StateNow
    /\ isLockedRef' = isLocked
    /\ UNCHANGED <<sidebarCollapsed, isLocked, autoCollapse, hoverTimeout, hovering, toggles>>

\* the timer of lines 37-45 fires, once
AutoCollapseFires ==
    /\ UNCHANGED sidebarOthers
    /\ autoCollapse = "pending"
    /\ autoCollapse' = "done"
    /\ sidebarCollapsed' = (IF ~isLockedRef THEN TRUE ELSE sidebarCollapsed)
    /\ UNCHANGED <<isLocked, isLockedRef, rendered, hoverTimeout, hovering, toggles>>

\* a click on the lock button, which is in the DOM when the last render was not
\* collapsed (line 310); the click's updates are rendered before the next event
ToggleLock ==
    /\ UNCHANGED sidebarOthers
    /\ ~rendered.collapsed
    /\ toggles < MaxToggles
    /\ toggles' = toggles + 1
    /\ isLocked' = ~isLocked
    /\ sidebarCollapsed' = CollapsedAfterLock(sidebarCollapsed, ~isLocked, rendered.collapsed)
    /\ rendered' = [collapsed |-> sidebarCollapsed', isLocked |-> isLocked']
    /\ isLockedRef' = isLocked'
    /\ UNCHANGED <<autoCollapse, hoverTimeout, hovering>>

\* handleMouseEnterSidebar, lines 262-272
HandleMouseEnterSidebar ==
    /\ UNCHANGED sidebarOthers
    /\ ~hovering
    /\ hovering' = TRUE
    /\ hoverTimeout' =
          IF ~rendered.isLocked /\ rendered.collapsed
          THEN [set |-> TRUE, isLocked |-> rendered.isLocked]
          ELSE NoTimeout
    /\ UNCHANGED <<sidebarCollapsed, isLocked, isLockedRef, rendered, autoCollapse, toggles>>

\* the 100 ms timer fires: expandSidebar() of the render that set it, lines 15-19
HoverTimeoutFires ==
    /\ UNCHANGED sidebarOthers
    /\ hoverTimeout.set
    /\ hoverTimeout' = NoTimeout
    /\ sidebarCollapsed' = (IF ~hoverTimeout.isLocked THEN FALSE ELSE sidebarCollapsed)
    /\ UNCHANGED <<isLocked, isLockedRef, rendered, autoCollapse, hovering, toggles>>

\* handleMouseLeaveSidebar, lines 274-282, with collapseSidebarFunc, lines 21-25
HandleMouseLeaveSidebar ==
    /\ UNCHANGED sidebarOthers
    /\ hovering
    /\ hovering' = FALSE
    /\ hoverTimeout' = NoTimeout
    /\ sidebarCollapsed' =
          IF ~rendered.isLocked /\ ~rendered.collapsed THEN TRUE ELSE sidebarCollapsed
    /\ UNCHANGED <<isLocked, isLockedRef, rendered, autoCollapse, toggles>>

NextSidebar ==
    \/ Render
    \/ AutoCollapseFires
    \/ ToggleLock
    \/ HandleMouseEnterSidebar
    \/ HoverTimeoutFires
    \/ HandleMouseLeaveSidebar

----------------------------------------------------------------------------
\* One list with page changes, page-size changes, searches and row deletions
\* (master-data-management 40-47, 210-226, 246-254; purchase-list 64-69, 142-206, 259)

RowIds == 1..MaxRows

\* the searched column of row k
RowName(k) == IF k % 2 = 1 THEN "a" ELSE "b"

ListTerms == {"", "a"}

\* ilike(`%${searchTerm}%`); no filter is added for the empty term
Matches(k, term) == term = "" \/ RowName(k) = term

RECURSIVE Ascending(_)
Ascending(ids) ==
    IF ids = {} THEN << >>
    ELSE LET least == CHOOSE k \in ids : \A j \in ids : k <= j
         IN  << least >> \o Ascending(ids \ {least})

\* the rows the list's query matches, in its order
MatchingRows(rows, term) == Ascending({ k \in rows : Matches(k, term) })

\* the rows of the page
ListPageRows(rows, term, page, limit) ==
    Range(MatchingRows(rows, term), PageFrom(page, limit), PageTo(PageFrom(page, limit), limit))

\* totalPages of the list as it is now
ListTotalPages == TotalPages(Len(MatchingRows(listRows, listSearch)), listLimit)

\* the debounce effect's setCurrentPage: master data goes to page 1 (line 43), the
\* purchase list sets no page (lines 64-69)
PageAfterSearch(hook, page) == IF hook = "masterData" THEN 1 ELSE page

ListFrozen ==
    /\ listHook = "masterData"
    /\ listRows = {}
    /\ listPage = 1
    /\ listLimit = 1
    /\ listSearch = ""

\* the list is mounted on page 1 with no search term
ListInit ==
    /\ listHook \in {"masterData", "purchaseList"}
    /\ listRows = RowIds
    /\ listPage = 1
    /\ listLimit \in PageSizes
    /\ listSearch = ""

\* handlePageChange(newPage), newPage being one of the pages 1..totalPages
ListPageChange(newPage) ==
    /\ UNCHANGED listOthers
    /\ newPage # listPage
    /\ newPage <= Max(1, ListTotalPages)
    /\ listPage' = newPage
    /\ UNCHANGED <<listHook, listRows, listLimit, listSearch>>

\* handleItemsPerPageChange
ListItemsPerPageChange(limit) ==
    /\ UNCHANGED listOthers
    /\ limit # listLimit
    /\ listLimit' = limit
    /\ listPage' = 1
    /\ UNCHANGED <<listHook, listRows, listSearch>>

\* the debounce timer fires with a new search term
ListSearchDebounced(term) ==
    /\ UNCHANGED listOthers
    /\ term # listSearch
    /\ listSearch' = term
    /\ listPage' = PageAfterSearch(listHook, listPage)
    /\ UNCHANGED <<listHook, listRows, listLimit>>

\* a row shown on the current page is deleted (deleteMutation / deletePurchaseMutation
\* succeed and invalidate the list's queries)
ListRowDeleted(id) ==
    /\ UNCHANGED listOthers
    /\ \E k \in 1..Len(ListPageRows(listRows, listSearch, listPage, listLimit)) :
          ListPageRows(listRows, listSearch, listPage, listLimit)[k] = id
    /\ listRows' = listRows \ {id}
    /\ UNCHANGED <<listHook, listPage, listLimit, listSearch>>

NextList ==
    \/ \E newPage \in Pages : ListPageChange(newPage)
    \/ \E limit \in PageSizes : ListItemsPerPageChange(limit)
    \/ \E term \in ListTerms : ListSearchDebounced(term)
    \/ \E id \in RowIds : ListRowDeleted(id)

----------------------------------------------------------------------------
\* updatePatientImageMutation (patient list, lines 138-188)

\* paths a file of the patient may be stored under
FilePaths == {"img1", "img2", "img3"}

\* StorageService.deleteEntityImage("patients", oldPath): the file is removed
FilesAfterDelete(files, path) == files \ {path}

\* StorageService.uploadEntityImage("patients", entityId, file): the file is stored
FilesAfterUpload(files, path) == files \cup {path}

ImageFrozen ==
    /\ storageFiles = {}
    /\ image_url = Null
    /\ imagePc = "idle"
    /\ patientData = Null
    /\ publicUrl = Null
    /\ imageCalls = 0
    /\ imageFailures = 0

\* the patient has no image, or an image whose file is in the bucket
ImageInit ==
    /\ image_url \in {Null, "img1"}
    /\ storageFiles = (IF image_url = Null THEN {} ELSE {image_url})
    /\ imagePc = "idle"
    /\ patientData = Null
    /\ publicUrl = Null
    /\ imageCalls = 0
    /\ imageFailures = 0

\* updatePatientImageMutation.mutate({ entityId, file }): the select of the row is sent
ImageMutate ==
    /\ UNCHANGED imageOthers
    /\ imagePc \in {"idle", "success", "error"}
    /\ imageCalls < MaxCalls
    /\ imageCalls' = imageCalls + 1
    /\ imagePc' = "selectRow"
    /\ patientData' = Null
    /\ publicUrl' = Null
    /\ UNCHANGED <<storageFiles, image_url, imageFailures>>

\* lines 150-164: the row came back; with an image_url its file is deleted first
SelectRowOk ==
    /\ UNCHANGED imageOthers
    /\ imagePc = "selectRow"
    /\ patientData' = image_url
    /\ imagePc' = (IF image_url # Null THEN "deleteOld" ELSE "upload")
    /\ UNCHANGED <<storageFiles, image_url, publicUrl, imageCalls, imageFailures>>

\* the select failed: its error is not read, patientData is null, nothing is deleted
SelectRowFail ==
    /\ UNCHANGED imageOthers
    /\ imagePc = "selectRow"
    /\ imageFailures < MaxFailures
    /\ imageFailures' = imageFailures + 1
    /\ patientData' = Null
    /\ imagePc' = "upload"
    /\ UNCHANGED <<storageFiles, image_url, publicUrl, imageCalls>>

\* await StorageService.deleteEntityImage("patients", oldPath)
DeleteOldOk ==
    /\ UNCHANGED imageOthers
    /\ imagePc = "deleteOld"
    /\ storageFiles' = FilesAfterDelete(storageFiles, patientData)
    /\ imagePc' = "upload"
    /\ UNCHANGED <<image_url, patientData, publicUrl, imageCalls, imageFailures>>

\* the delete failed: it throws (onError) or it swallows its error and the run goes on
DeleteOldFail(throws) ==
    /\ UNCHANGED imageOthers
    /\ imagePc = "deleteOld"
    /\ imageFailures < MaxFailures
    /\ imageFailures' = imageFailures + 1
    /\ imagePc' = (IF throws THEN "error" ELSE "upload")
    /\ UNCHANGED <<storageFiles, image_url, patientData, publicUrl, imageCalls>>

\* await StorageService.uploadEntityImage(...): the file is stored under a free path
UploadOk(path) ==
    /\ UNCHANGED imageOthers
    /\ imagePc = "upload"
    /\ path \notin storageFiles
    /\ storageFiles' = FilesAfterUpload(storageFiles, path)
    /\ publicUrl' = path
    /\ imagePc' = "updateRow"
    /\ UNCHANGED <<image_url, patientData, imageCalls, imageFailures>>

\* the upload throws: mutationFn ends, onError logs
UploadFail ==
    /\ UNCHANGED imageOthers
    /\ imagePc = "upload"
    /\ imageFailures < MaxFailures
    /\ imageFailures' = imageFailures + 1
    /\ imagePc' = "error"
    /\ UNCHANGED <<storageFiles, image_url, patientData, publicUrl, imageCalls>>

\* update({ image_url: publicUrl, ... }) went through; onSuccess
UpdateRowOk ==
    /\ UNCHANGED imageOthers
    /\ imagePc = "updateRow"
    /\ image_url' = publicUrl
    /\ imagePc' = "success"
    /\ UNCHANGED <<storageFiles, patientData, publicUrl, imageCalls, imageFailures>>

\* the update failed: throw error, onError logs
UpdateRowFail ==
    /\ UNCHANGED imageOthers
    /\ imagePc = "updateRow"
    /\ imageFailures < MaxFailures
    /\ imageFailures' = imageFailures + 1
    /\ imagePc' = "error"
    /\ UNCHANGED <<storageFiles, image_url, patientData, publicUrl, imageCalls>>

NextImage ==
    \/ ImageMutate
    \/ SelectRowOk
    \/ SelectRowFail
    \/ DeleteOldOk
    \/ \E throws \in BOOLEAN : DeleteOldFail(throws)
    \/ \E path \in FilePaths : UploadOk(path)
    \/ UploadFail
    \/ UpdateRowOk
    \/ UpdateRowFail

----------------------------------------------------------------------------
\* Button (components/modules/button/index.tsx 5-74)

MaxClicks == 2     \* clicks on the button in one behaviour

ButtonVariants == {"primary", "secondary", "accent", "outline", "text", "danger"}
ButtonSizes == {"sm", "md", "lg"}

\* what the caller wrote for disabled: nothing, disabled={undefined},
\* disabled={false} or disabled={true}
DisabledProps == {"absent", "undefined", "false", "true"}

ButtonPropsSet ==
    [isLoading : BOOLEAN, disabled : DisabledProps, variant : ButtonVariants,
     size : ButtonSizes]

\* props.disabled: undefined when the caller passed nothing
PropsDisabled(props) == IF props.disabled = "absent" THEN "undefined" ELSE props.disabled

\* a JavaScript value used as a condition
Truthy(v) == v = "true"

\* isLoading || props.disabled (line 44)
IsLoadingOrDisabled(props) == IF props.isLoading THEN "true" ELSE PropsDisabled(props)

\* {...props} after disabled={...} (lines 44-45): every key the caller passed
\* replaces the attribute written before the spread
SpreadProps(disabled, props) ==
    IF props.disabled = "absent" THEN disabled ELSE props.disabled

\* the <button> of lines 32-71
ButtonElementOf(props) ==
    [disabled |-> SpreadProps(IsLoadingOrDisabled(props), props),
     content |-> IF props.isLoading THEN "Loading..." ELSE "children"]

DefaultButtonProps ==
    [isLoading |-> FALSE, disabled |-> "absent", variant |-> "primary", size |-> "md"]

ButtonFrozen ==
    /\ buttonProps = DefaultButtonProps
    /\ buttonElement = ButtonElementOf(DefaultButtonProps)
    /\ buttonClicks = 0

\* the first render, with no optional prop passed (the defaults of lines 8-11)
ButtonInit == ButtonFrozen

\* the parent renders the Button with other props
ButtonRender(props) ==
    /\ UNCHANGED buttonOthers
    /\ props # buttonProps
    /\ buttonProps' = props
    /\ buttonElement' = ButtonElementOf(props)
    /\ UNCHANGED buttonClicks

\* a click: the browser delivers it to onClick unless the button is disabled
ButtonClick ==
    /\ UNCHANGED buttonOthers
    /\ buttonClicks < MaxClicks
    /\ ~Truthy(buttonElement.disabled)
    /\ buttonClicks' = buttonClicks + 1
    /\ UNCHANGED <<buttonProps, buttonElement>>

NextButton ==
    \/ \E props \in ButtonPropsSet : ButtonRender(props)
    \/ ButtonClick

----------------------------------------------------------------------------
\* AddEditModal (unnamed/part_003 11-52, 109-160)

MaxNameLen == 2    \* characters of a name
MaxSaves == 2      \* onSubmit calls in one behaviour
MaxModalAlerts == 2 \* alerts of handleSave in one behaviour

Whitespace == {" ", "\t"}
NameChars == Whitespace \cup {"a"}

Texts == UNION { [1..n -> NameChars] : n \in 0..MaxNameLen }
Descriptions == {<<>>, <<"d">>}

NoInitialData == [id |-> "", name |-> <<>>, description |-> <<>>]
InitialDatas == {NoInitialData, [id |-> "x1", name |-> <<"a">>, description |-> <<"d">>]}

NoSubmit == [id |-> "none", name |-> <<>>, description |-> <<>>]

RECURSIVE TrimStart(_)
TrimStart(s) == IF s = <<>> \/ Head(s) \notin Whitespace THEN s ELSE TrimStart(Tail(s))

RECURSIVE TrimEnd(_)
TrimEnd(s) ==
    IF s = <<>> \/ s[Len(s)] \notin Whitespace THEN s ELSE TrimEnd(SubSeq(s, 1, Len(s) - 1))

TrimNothing(s) == s

\* String.prototype.trim
Trim(s) == TrimEnd(TrimStart(s))

\* the name the effect of lines 28-44 sets when the modal opens
NameOnOpen(initialData, initialNameFromSearch) ==
    IF initialData # NoInitialData THEN initialData.name
    ELSE IF initialNameFromSearch # <<>> THEN initialNameFromSearch
    ELSE <<>>

ModalFrozen ==
    /\ modalOpen = FALSE
    /\ modalName = <<>>
    /\ modalDescription = <<>>
    /\ modalAlerts = 0
    /\ onSubmitCalls = 0
    /\ lastSubmit = NoSubmit

ModalInit == ModalFrozen

\* the parent opens the modal: the effect of lines 28-44 fills name and description
ModalOpens(initialData, initialNameFromSearch) ==
    /\ UNCHANGED modalOthers
    /\ ~modalOpen
    /\ modalOpen' = TRUE
    /\ modalName' = NameOnOpen(initialData, initialNameFromSearch)
    /\ modalDescription' = IF initialData # NoInitialData THEN initialData.description ELSE <<>>
    /\ UNCHANGED <<modalAlerts, onSubmitCalls, lastSubmit>>

\* onChange of the name input (line 113)
SetName(value) ==
    /\ UNCHANGED modalOthers
    /\ modalOpen
    /\ modalName # value
    /\ modalName' = value
    /\ UNCHANGED <<modalOpen, modalDescription, modalAlerts, onSubmitCalls, lastSubmit>>

\* onChange of the description (line 123)
SetDescription(value) ==
    /\ UNCHANGED modalOthers
    /\ modalOpen
    /\ modalDescription # value
    /\ modalDescription' = value
    /\ UNCHANGED <<modalOpen, modalName, modalAlerts, onSubmitCalls, lastSubmit>>

\* handleSave (lines 46-52)
HandleSave(id) ==
    /\ UNCHANGED modalOthers
    /\ modalOpen
    /\ modalAlerts < MaxModalAlerts
    /\ onSubmitCalls < MaxSaves
    /\ IF Trim(modalName) = <<>>
       THEN /\ modalAlerts' = modalAlerts + 1
            /\ UNCHANGED <<onSubmitCalls, lastSubmit>>
       ELSE /\ onSubmitCalls' = onSubmitCalls + 1
            /\ lastSubmit' = [id |-> id, name |-> modalName, description |-> modalDescription]
            /\ UNCHANGED modalAlerts
    /\ UNCHANGED <<modalOpen, modalName, modalDescription>>

\* onClose: the parent closes the modal
ModalCloses ==
    /\ UNCHANGED modalOthers
    /\ modalOpen
    /\ modalOpen' = FALSE
    /\ UNCHANGED <<modalName, modalDescription, modalAlerts, onSubmitCalls, lastSubmit>>

NextModal ==
    \/ \E initialData \in InitialDatas, initialNameFromSearch \in Texts :
          ModalOpens(initialData, initialNameFromSearch)
    \/ \E value \in Texts : SetName(value)
    \/ \E value \in Descriptions : SetDescription(value)
    \/ \E id \in {"", "x1"} : HandleSave(id)
    \/ ModalCloses

WidgetFrozen == ButtonFrozen /\ ModalFrozen
ComponentsFrozen == ItemFormFrozen /\ SidebarFrozen /\ ListFrozen /\ ImageFrozen
FinalFrozen == ComponentsFrozen /\ WidgetFrozen
LaterFrozen == PageFrozen /\ SearchFrozen /\ RtFrozen /\ CodeFrozen /\ CrudFrozen

----------------------------------------------------------------------------
DelFrozen ==
    /\ stock = [i \in ItemIds |-> MaxStock * Scale]
    /\ purchases = PurchaseIds
    /\ purchase_items = { WithQuantity(sh, 1) : sh \in LineShapes }
    /\ pc = [d \in Dels |-> "idle"]
    /\ mutId = [d \in Dels |-> Null]
    /\ purchaseItems = [d \in Dels |-> << >>]
    /\ lineIdx = [d \in Dels |-> 0]
    /\ itemData = [d \in Dels |-> NoItem]
    /\ newStock = [d \in Dels |-> 0]
    /\ adjusted = [d \in Dels |-> {}]
    /\ skipped = [d \in Dels |-> {}]
    /\ delAlerts = 0
    /\ invalidated = 0
    /\ failures = 0
    /\ mutations = 0
    /\ initStock = stock
    /\ rolledBack = {}

\* the purchase deletion
Init == DelInit /\ MutFrozen /\ FormFrozen /\ ConvFrozen /\ LaterFrozen /\ FinalFrozen
Spec == Init /\ [][Next]_vars

\* the CRUD mutations
InitMut == MutInit /\ DelFrozen /\ FormFrozen /\ ConvFrozen /\ LaterFrozen /\ FinalFrozen
SpecMut == InitMut /\ [][NextMut]_vars

\* the item form: price edits, conversions and the recalculation effect
InitForm == FormInit /\ DelFrozen /\ MutFrozen /\ ConvFrozen /\ LaterFrozen /\ FinalFrozen
SpecForm == InitForm /\ [][NextForm]_vars

\* the item form: the price arithmetic
InitCalc == CalcInit /\ DelFrozen /\ MutFrozen /\ ConvFrozen /\ LaterFrozen /\ FinalFrozen
SpecCalc == InitCalc /\ [][NextCalc]_vars

\* saving and loading unit_conversions
InitConv == ConvInit /\ DelFrozen /\ MutFrozen /\ LaterFrozen /\ FinalFrozen
SpecConv == InitConv /\ [][NextConv]_vars

EarlierFrozen == DelFrozen /\ MutFrozen /\ FormFrozen /\ ConvFrozen

\* pagination
InitPage ==
    PageInit /\ EarlierFrozen /\ SearchFrozen /\ RtFrozen /\ CodeFrozen /\ CrudFrozen /\ FinalFrozen

\* debounced search; timers run and fire
InitSearch == SearchInit /\ EarlierFrozen /\ RtFrozen /\ CodeFrozen /\ CrudFrozen /\ FinalFrozen
SpecSearch ==
    /\ InitSearch
    /\ [][NextSearch]_vars
    /\ WF_vars(Tick)
    /\ WF_vars(\E t \in TimerValues : TimerFires(t))

\* the purchases query under change notifications; notifications are delivered
\* and fetches are answered and settle
InitRt ==
    RtInit /\ EarlierFrozen /\ PageFrozen /\ SearchFrozen /\ CodeFrozen /\ CrudFrozen /\ FinalFrozen
SpecRt ==
    /\ InitRt
    /\ [][NextRt]_vars
    /\ WF_vars(NotificationDelivered)
    /\ WF_vars(BackendAnswers)
    /\ WF_vars(FetchSettles)

\* item-code generation in two add-item forms
InitCode ==
    CodeInit /\ EarlierFrozen /\ PageFrozen /\ SearchFrozen /\ RtFrozen /\ CrudFrozen /\ FinalFrozen
SpecCode == InitCode /\ [][NextCode]_vars

InitGen ==
    /\ CodeInitWithRows
    /\ EarlierFrozen /\ PageFrozen /\ SearchFrozen /\ RtFrozen /\ CrudFrozen /\ FinalFrozen
SpecGen == InitGen /\ [][NextCode]_vars

\* the master-data mutations and modals
InitCrud ==
    CrudInit /\ EarlierFrozen /\ PageFrozen /\ SearchFrozen /\ RtFrozen /\ CodeFrozen /\ FinalFrozen
SpecCrud == InitCrud /\ [][NextCrud]_vars
SpecPage == InitPage /\ [][NextPage]_vars

\* the item form from mount to unmount
InitItemForm ==
    ItemFormInit /\ EarlierFrozen /\ LaterFrozen /\ SidebarFrozen /\ ListFrozen /\ ImageFrozen
    /\ WidgetFrozen
SpecItemForm == InitItemForm /\ [][NextItemForm]_vars

\* the main layout's sidebar
InitSidebar ==
    SidebarInit /\ EarlierFrozen /\ LaterFrozen /\ ItemFormFrozen /\ ListFrozen /\ ImageFrozen
    /\ WidgetFrozen
SpecSidebar == InitSidebar /\ [][NextSidebar]_vars

\* one list with search and deletions
InitList ==
    ListInit /\ EarlierFrozen /\ LaterFrozen /\ ItemFormFrozen /\ SidebarFrozen /\ ImageFrozen
    /\ WidgetFrozen
SpecList == InitList /\ [][NextList]_vars

\* replacing a patient's image
InitImage ==
    ImageInit /\ EarlierFrozen /\ LaterFrozen /\ ItemFormFrozen /\ SidebarFrozen /\ ListFrozen
    /\ WidgetFrozen
SpecImage == InitImage /\ [][NextImage]_vars

\* one Button rendered with any props
InitButton ==
    ButtonInit /\ EarlierFrozen /\ LaterFrozen /\ ComponentsFrozen /\ ModalFrozen
SpecButton == InitButton /\ [][NextButton]_vars

\* the add/edit modal
InitModal ==
    ModalInit /\ EarlierFrozen /\ LaterFrozen /\ ComponentsFrozen /\ ButtonFrozen
SpecModal == InitModal /\ [][NextModal]_vars

----------------------------------------------------------------------------
\* Properties of the purchase deletion (specification Spec)

\* the line whose stock write a run has just passed
PreviousLine(d) == purchaseItems[d][lineIdx[d] - 1]

\* a line's quantity in base units as the rollback computes it
LineQuantity(l) == QuantityInBaseUnit(l, SelectItem(l.item_id))

RECURSIVE SumQuantity(_)
SumQuantity(ls) ==
    IF ls = {} THEN 0
    ELSE LET l == CHOOSE x \in ls : TRUE IN LineQuantity(l) + SumQuantity(ls \ {l})

\* C1: deleting purchases never drives a stock negative: every item's stock is >= 0
\* in every state, and the value a run is about to write for a line whose item row
\* it has read is max(0, stock read - the line's quantity in base units).
C1_StockNeverNegative ==
    /\ \A i \in ItemIds : stock[i] >= 0
    /\ \A d \in Dels : pc[d] = "updateStock" =>
          /\ newStock[d] >= 0
          /\ newStock[d] = Max(0, itemData[d].stock - QuantityInBaseUnit(CurrentLine(d), itemData[d]))

\* C1 witness: a run has written a stock that the clamp held at zero (the line's
\* quantity was larger than the stock read).
C1_Witness ==
    \E d \in Dels :
        /\ pc[d] \in {"readItem", "deletePurchase"}
        /\ lineIdx[d] > 1
        /\ PreviousLine(d) \in adjusted[d]
        /\ itemData[d].stock < QuantityInBaseUnit(PreviousLine(d), itemData[d])
        /\ stock[PreviousLine(d).item_id] = 0

\* the quantity in base units with the rate read as "base units per this unit"
ClaimedQuantityInBaseUnit(item, data) ==
    IF item.unit # data.base_unit /\ HasConversion(data.unit_conversions, item.unit)
    THEN item.quantity * FindConversion(data.unit_conversions, item.unit).conversion_rate * Scale
    ELSE item.quantity * Scale

\* C2: a line in another unit than the base unit is converted with
\* quantity x conversion_rate of the conversion with the line's unit name; a line in
\* the base unit is subtracted unchanged.
C2_ConvertedByMultiplying ==
    \A d \in Dels : pc[d] = "updateStock" =>
        QuantityInBaseUnit(CurrentLine(d), itemData[d])
            = ClaimedQuantityInBaseUnit(CurrentLine(d), itemData[d])

\* C3: a deletion that has failed has undone nothing: as long as no deletion has
\* succeeded, every purchase row and every line still exists after the failure,
\* while the stock of the items whose write went through stays reduced.
C3_FailureLeavesPartialRollback ==
    \A d \in Dels : (pc[d] = "error" /\ invalidated = 0) =>
        /\ purchases = PurchaseIds
        /\ Cardinality(purchase_items) = Cardinality(LineShapes)
        /\ \A l \in adjusted[d] :
              initStock[l.item_id] > 0 => stock[l.item_id] < initStock[l.item_id]

\* C3 witness: the delete of the purchase row failed after the loop; an item's stock
\* has been reduced and the purchase and its lines are still there.
C3_Witness ==
    \E d \in Dels :
        /\ pc[d] = "error"
        /\ mutId[d] \in purchases
        /\ \E l \in adjusted[d] :
              /\ l \in purchase_items
              /\ stock[l.item_id] < initStock[l.item_id]

\* C4: the stock write is not atomic with its read: the step that applies a run's
\* write sets the item's stock to the value computed from the stock that run read,
\* whatever the stock has become in between.
C4_WriteUsesStaleRead ==
    [][\A d \in Dels :
          (pc[d] = "updateStock" /\ lineIdx'[d] = lineIdx[d] + 1 /\ CurrentLine(d) \in adjusted'[d])
          => stock'[CurrentLine(d).item_id]
                = Max(0, itemData[d].stock - QuantityInBaseUnit(CurrentLine(d), itemData[d]))]_vars

\* C4 witness: two deletions of different purchases have both succeeded with no
\* failed call, and the stock of i1 is higher than max(0, initial - all quantities).
C4_Witness ==
    /\ pc["d1"] = "success" /\ pc["d2"] = "success"
    /\ mutId["d1"] # mutId["d2"]
    /\ failures = 0 /\ mutations = 2
    /\ stock["i1"] > Max(0, initStock["i1"]
                             - SumQuantity({ l \in adjusted["d1"] \cup adjusted["d2"] : l.item_id = "i1" }))

\* C5: a deletion that ended successfully has adjusted the stock of every line of
\* the purchase: no line was passed over because its read or its write failed.
C5_SuccessAdjustedEveryLine ==
    \A d \in Dels : pc[d] = "success" => skipped[d] = {}

\* the lines a run has passed: their stock write went through or was passed over
Processed(d) == adjusted[d] \cup skipped[d]

\* the lines of purchase id that refer to item i, among the lines ls
LinesOn(ls, i) == { l \in ls : l.item_id = i }

\* C16: the calls of one deletion are strictly sequential. A run is at one awaited
\* call at a time (pc[d]); while the read or the write of line k is awaited, the
\* lines before k have been processed and the lines from k on have not; the delete of
\* the purchase row is awaited only when every line has been processed.
C16_CallsSequential ==
    \A d \in Dels :
        /\ pc[d] \in {"readItem", "updateStock"} =>
              /\ lineIdx[d] \in 1..Len(purchaseItems[d])
              /\ \A k \in 1..(lineIdx[d] - 1) : purchaseItems[d][k] \in Processed(d)
              /\ \A k \in lineIdx[d]..Len(purchaseItems[d]) :
                    purchaseItems[d][k] \notin Processed(d)
        /\ pc[d] = "deletePurchase" =>
              \A k \in 1..Len(purchaseItems[d]) : purchaseItems[d][k] \in Processed(d)

\* C16 witness: a run awaits the delete of the purchase row after the stock writes
\* of both lines of the purchase went through.
C16_Witness ==
    \E d \in Dels :
        /\ pc[d] = "deletePurchase"
        /\ Len(purchaseItems[d]) = 2
        /\ Cardinality(adjusted[d]) = 2

\* C17: when the lines of a purchase refer to the same item, a deletion that ran
\* alone and without a failed call leaves the item's stock at
\* max(0, initial stock - sum of the lines' quantities in base units), in whatever
\* order the lines came back.
C17_SameItemLinesSum ==
    \A d \in Dels :
        (pc[d] = "success" /\ mutations = 1 /\ failures = 0) =>
            \A i \in ItemIds :
                stock[i] = Max(0, initStock[i] - SumQuantity(LinesOn(adjusted[d], i)))

\* C17 witness: the deletion of p1, whose two lines are both on item i1, succeeded
\* alone and without a failure, and the clamp did not hide the sum.
C17_Witness ==
    /\ pc["d1"] = "success" /\ mutId["d1"] = "p1"
    /\ mutations = 1 /\ failures = 0
    /\ Cardinality(LinesOn(adjusted["d1"], "i1")) = 2
    /\ stock["i1"] > 0
    /\ stock["i1"] = initStock["i1"] - SumQuantity(LinesOn(adjusted["d1"], "i1"))

\* C18: the deletion is not idempotent across a failed attempt: when a deletion wrote
\* the reduced stock of every line and then failed to delete the purchase row, and
\* the deletion of the same purchase is run again and succeeds, the lines' quantities
\* have been subtracted twice.
C18_RetrySubtractsAgain ==
    (/\ pc["d2"] = "idle" /\ pc["d1"] = "success"
     /\ mutations = 2 /\ mutId["d1"] \in rolledBack /\ skipped["d1"] = {}) =>
        \A i \in ItemIds :
            stock[i] = Max(0, initStock[i] - 2 * SumQuantity(LinesOn(adjusted["d1"], i)))

\* C18 witness: after the failed and the repeated deletion of the same purchase an
\* item's stock is lower than one subtraction of its lines would have left it.
C18_Witness ==
    /\ pc["d2"] = "idle" /\ pc["d1"] = "success"
    /\ mutations = 2 /\ mutId["d1"] \in rolledBack /\ skipped["d1"] = {}
    /\ \E i \in ItemIds :
          stock[i] < Max(0, initStock[i] - SumQuantity(LinesOn(adjusted["d1"], i)))

\* C19: when the select of the purchase's lines fails, the run stops before any
\* write: the step changes no stock, deletes no purchase row and no line, does not
\* invalidate the cache, and reports the error once through onError; the run then
\* stays stopped until mutate is called again.
C19_LinesReadFailureStops ==
    [][\A d \in Dels :
          /\ (pc[d] = "selectLines" /\ pc'[d] = "error") =>
                /\ stock' = stock
                /\ purchases' = purchases
                /\ purchase_items' = purchase_items
                /\ invalidated' = invalidated
                /\ delAlerts' = delAlerts + 1
          /\ pc[d] = "error" => pc'[d] \in {"error", "selectLines"}]_vars

\* C19 witness: the first deletion failed at the select of the lines: one alert, no
\* line processed, every stock and every purchase as at the start.
C19_Witness ==
    /\ pc["d1"] = "error" /\ Processed("d1") = {}
    /\ failures = 1 /\ delAlerts = 1 /\ invalidated = 0
    /\ stock = initStock /\ purchases = PurchaseIds

\* the line's unit is not the base unit and no conversion of the item has that name
UnknownUnit(item, data) ==
    item.unit # data.base_unit /\ ~HasConversion(data.unit_conversions, item.unit)

\* C21: when a line's unit differs from the item's base unit and the item declares
\* no conversion with that unit name, the rollback subtracts the line's quantity
\* unconverted, as if it were in base units: the value computed for the write is
\* max(0, stock read - quantity), and that value is what the write stores.
C21_UnknownUnitUnconverted ==
    [][\A d \in Dels :
          /\ (pc[d] = "readItem" /\ pc'[d] = "updateStock"
              /\ UnknownUnit(CurrentLine(d), SelectItem(CurrentLine(d).item_id))) =>
                newStock'[d] = Max(0, stock[CurrentLine(d).item_id] - CurrentLine(d).quantity * Scale)
          /\ (pc[d] = "updateStock" /\ CurrentLine(d) \in adjusted'[d]
              /\ UnknownUnit(CurrentLine(d), itemData[d])) =>
                stock'[CurrentLine(d).item_id]
                    = Max(0, itemData[d].stock - CurrentLine(d).quantity * Scale)]_vars

\* C21 witness: the write of line l4 (unit "box" on item i2, which declares no
\* conversion and whose base unit is "tablet") went through, and the stock of i2 went
\* down by exactly the line's quantity.
C21_Witness ==
    \E d \in Dels :
        \E l \in adjusted[d] :
            /\ l.id = "l4"
            /\ UnknownUnit(l, SelectItem(l.item_id))
            /\ failures = 0 /\ mutations = 1
            /\ stock[l.item_id] > 0
            /\ stock[l.item_id] = initStock[l.item_id] - l.quantity * Scale

----------------------------------------------------------------------------
\* Properties of the CRUD mutations (specification SpecMut)

\* C6: error handling is uniform: every failed backend write of every mutation has
\* been surfaced with an alert, and no write is sent again after a failure.
C6_EveryFailureAlertedNoRetry ==
    \A m \in Mutations :
        /\ alertCalls[m] = failedWrites[m]
        /\ writeCalls[m] = mutateCalls[m]

----------------------------------------------------------------------------
\* Properties of the item form (specifications SpecCalc and SpecForm)

\* C7: the price arithmetic never divides by zero: calculateProfitPercentage returns
\* null whenever the base price is <= 0 and ((sell - base) / base) x 100 exactly when
\* base > 0 and sell >= 0; calculateSellPriceFromMargin returns 0 whenever the base
\* price is <= 0 and otherwise the integer nearest to base x (1 + margin/100),
\* halves going up.
C7_NoDivisionByZero ==
    /\ lastCall.fn = "calculateProfitPercentage" =>
          /\ lastCall.base <= 0 => lastCall.result.isNull
          /\ lastCall.result.isNull <=> ~(lastCall.base > 0 /\ lastCall.sell >= 0)
          /\ ~lastCall.result.isNull =>
                /\ lastCall.result.den # 0
                /\ lastCall.result.den = lastCall.base
                /\ lastCall.result.num = (lastCall.sell - lastCall.base) * 100
    /\ lastCall.fn = "calculateSellPriceFromMargin" =>
          /\ lastCall.base <= 0 => lastCall.value = 0
          /\ lastCall.base > 0 =>
                LET twiceError == 200 * lastCall.value - 2 * lastCall.base * (100 + lastCall.margin)
                IN  -100 < twiceError /\ twiceError <= 100

\* C7 witness: calculateProfitPercentage was called with a base price of 0 and a
\* sell price >= 0 and returned null.
C7_Witness ==
    /\ lastCall.fn = "calculateProfitPercentage"
    /\ lastCall.base = 0 /\ lastCall.sell > 0
    /\ lastCall.result.isNull

----------------------------------------------------------------------------
\* Properties of saving and loading unit_conversions (specification SpecConv)

C10_ListKeepsStoredPrices ==
    LET recs == ListParse(unit_conversions)
    IN  listConversions # << >> =>
            /\ Len(listConversions) = Len(recs)
            /\ \A k \in 1..Len(recs) :
                  /\ listConversions[k].conversion_rate = recs[k].conversion_rate
                  /\ listConversions[k].basePrice = recs[k].base_price
                  /\ listConversions[k].sellPrice = recs[k].sell_price

----------------------------------------------------------------------------
\* Properties of the paginated list (specification SpecPage)

RowsOf(r) == { r.rows[k] : k \in 1..Len(r.rows) }

\* C11: pages partition the result set. Page p of size L holds exactly the rows at
\* offsets (p-1)*L .. (p-1)*L + L - 1 of the ordered result, in order; two distinct
\* pages share no row; and once the pages 1..totalPages, totalPages =
\* ceil(totalItems / L), have been fetched, every row is on exactly one of them.
C11_PagesPartition ==
    /\ \A r \in pagesSeen :
          /\ RowsOf(r) = { k \in 1..totalRows :
                             /\ (r.page - 1) * itemsPerPage <= k - 1
                             /\ k - 1 <= (r.page - 1) * itemsPerPage + itemsPerPage - 1 }
          /\ Len(r.rows) = Cardinality(RowsOf(r))
          /\ \A a, b \in 1..Len(r.rows) : a < b => r.rows[a] < r.rows[b]
    /\ \A r1, r2 \in pagesSeen : r1.page # r2.page => RowsOf(r1) \cap RowsOf(r2) = {}
    /\ (/\ pagesSeen # {}
        /\ \A p \in 1..TotalPages(queryData.totalItems, itemsPerPage) :
              \E r \in pagesSeen : r.page = p) =>
          \A k \in 1..totalRows :
              Cardinality({ r \in pagesSeen : k \in RowsOf(r) }) = 1

\* C11 witness: with more rows than a page holds and a last page that is not full,
\* every page 1..totalPages has been fetched.
C11_Witness ==
    /\ itemsPerPage > 1
    /\ totalRows > itemsPerPage
    /\ totalRows % itemsPerPage # 0
    /\ queryData.totalItems = totalRows
    /\ \A p \in 1..TotalPages(totalRows, itemsPerPage) : \E r \in pagesSeen : r.page = p

----------------------------------------------------------------------------
\* Properties of the debounced search (specification SpecSearch)

\* C12: search is debounced. debouncedSearch only ever changes to the value the
\* input holds and has held unchanged for the full delay (500 ms in
\* useMasterDataManagement, 250 ms in the purchase list), so a value replaced within
\* the delay never reaches the query; and once typing has stopped, debouncedSearch
\* eventually equals the input.
C12_SearchDebounced ==
    /\ [][debouncedSearch' # debouncedSearch =>
             /\ debouncedSearch' = search
             /\ heldFor >= Delay
             /\ heldFor >= (IF hookKind = "masterData" THEN 500 ELSE 250)]_vars
    /\ ((~typing) ~> (debouncedSearch = search))

\* C12 witness: "a" was typed and replaced by "ab" within the delay; typing has
\* stopped, "a" never reached the query and debouncedSearch is "ab".
C12_Witness ==
    /\ "a" \in cleared /\ "a" \notin reached
    /\ ~typing
    /\ search = "ab" /\ debouncedSearch = "ab"
    /\ timers = {}

----------------------------------------------------------------------------
\* Properties of the purchases query (specification SpecRt)

\* C13: every change notification delivered for table purchases invalidates the
\* purchases query, which is then being refetched; and whenever the list differs
\* from the rows of the backend it eventually shows the backend's rows.
C13_ChangesReachTheList ==
    /\ [][notifications' < notifications =>
             (qStatus' = "fetching" /\ ~qResponse'.answered)]_vars
    /\ ((shown # purchases) ~> (shown = purchases))

\* C13 witness: after changes by other sessions, all notified and delivered, the
\* list is at rest and shows the changed rows of the backend.
C13_Witness ==
    /\ changes > 1
    /\ notifications = 0
    /\ qStatus = "idle"
    /\ purchases # PurchaseIds
    /\ shown = purchases

----------------------------------------------------------------------------
\* Properties of the item-code generation (specification SpecCode)

\* C14: a lookup in flight is not cancelled when the selection changes: the step in
\* which a lookup returns to an open form writes the code generated for the
\* selection the lookup was started with into formData.code, whatever the form's
\* selection is by then and whichever lookup of the form returned before.
C14_StaleLookupWrites ==
    [][\A req \in lookups :
          (req \notin lookups' /\ req.answered /\ formOpen[req.form]) =>
              /\ formCode'[req.form].code = GeneratedCode(req.prefix, req.data)
              /\ formCode'[req.form].code.prefix = req.prefix]_vars

\* C14 witness: an open form has no lookup left in flight and holds a code whose
\* prefix is not the prefix of its current selection.
C14_Witness ==
    \E f \in Forms :
        /\ formOpen[f] /\ Complete(selection[f])
        /\ \A req \in lookups : req.form # f
        /\ formCode[f].code # NoCode
        /\ formCode[f].code.prefix # CodePrefix(selection[f])

\* C15: the generated code is not reserved. Two open forms whose codes were
\* generated for the same prefix from the same rows of items hold the same code, and
\* every submit of a new item inserts a row with the form's code, whether or not a
\* row with that code exists.
C15_CodeNotReserved ==
    /\ [](\A f, g \in Forms :
            (/\ formCode[f].code # NoCode /\ formCode[g].code # NoCode
             /\ formCode[f].code.prefix = formCode[g].code.prefix
             /\ formCode[f].readAt = formCode[g].readAt
             /\ ~formCode[f].fromError /\ ~formCode[g].fromError) =>
                formCode[f].code = formCode[g].code)
    /\ [][\A f \in Forms :
            (formOpen[f] /\ ~formOpen'[f]) => itemCodes' = Append(itemCodes, formCode[f].code)]_vars

\* C15 witness: both forms read the empty table, got the same code and inserted it:
\* items has two rows with one code.
C15_Witness ==
    /\ Len(itemCodes) = 2
    /\ itemCodes[1] = itemCodes[2]
    /\ \A f \in Forms : /\ ~formOpen[f]
                          /\ formCode[f].code = itemCodes[1]
                          /\ formCode[f].readAt = 0
                          /\ ~formCode[f].fromError

----------------------------------------------------------------------------
\* Properties of useMasterDataManagement (specification SpecCrud)

\* C20: for any table name, the step in which an add, update or delete succeeds
\* makes every cached query of that table stale, leaves the queries of other tables
\* alone and closes the corresponding modal (the add modal for add; the edit modal,
\* with editingItem cleared, for update and delete); the step in which one fails
\* leaves both modals, editingItem and the cache as they were.
C20_SuccessAndFailureEffects ==
    [][\A m \in MasterDataMutations :
          /\ (crudStatus[m] = "pending" /\ crudStatus'[m] = "success") =>
                /\ \A k \in QueryKeys :
                      queryCache'[k] = IF k.table = tableName /\ queryCache[k] # "absent"
                                       THEN "stale" ELSE queryCache[k]
                /\ m = "addMutation" =>
                      /\ ~isAddModalOpen'
                      /\ isEditModalOpen' = isEditModalOpen /\ editingItem' = editingItem
                /\ m # "addMutation" =>
                      /\ ~isEditModalOpen' /\ editingItem' = NoEditingItem
                      /\ isAddModalOpen' = isAddModalOpen
          /\ (crudStatus[m] = "pending" /\ crudStatus'[m] = "error") =>
                /\ isAddModalOpen' = isAddModalOpen
                /\ isEditModalOpen' = isEditModalOpen
                /\ editingItem' = editingItem
                /\ queryCache' = queryCache]_vars

\* C20 witness: an update has succeeded: the edit modal is closed, editingItem is
\* cleared, a cached query of the hook's table is stale and a query of another table
\* is still fresh; an add failed before and left its modal open.
C20_Witness ==
    /\ crudStatus["updateMutation"] = "success"
    /\ crudStatus["addMutation"] = "error"
    /\ isAddModalOpen /\ ~isEditModalOpen /\ editingItem = NoEditingItem
    /\ \E k \in QueryKeys : k.table = tableName /\ queryCache[k] = "stale"
    /\ \E k \in QueryKeys : k.table # tableName /\ queryCache[k] = "fresh"
    /\ crudAlerts = 1



\* C28 (as amended): with handleEdit, the closing of the modal, the successes of
\* the mutations and the clear timer, the edit modal is never open while
\* editingItem is null and no clear is pending while it is open. editingItem is
\* cleared either by the success of an update or a delete, in the step that closes
\* the modal, or by the timer, 300 ms after it was set with the modal closed; a
\* handleEdit within these 300 ms cancels the pending clear.
C28_ModalOpenHasItem ==
    /\ [](isEditModalOpen => (editingItem # NoEditingItem /\ clearTimer = NoClearTimer))
    /\ [][(editingItem # NoEditingItem /\ editingItem' = NoEditingItem) =>
             /\ ~isEditModalOpen'
             /\ \/ /\ ~isEditModalOpen
                   /\ clearTimer # NoClearTimer
                   /\ clearTimer[1] >= ClearTicks
                \/ \E m \in {"updateMutation", "deleteMutation"} :
                      crudStatus[m] = "pending" /\ crudStatus'[m] = "success"]_vars
    /\ [][(~isEditModalOpen /\ isEditModalOpen') => clearTimer' = NoClearTimer]_vars

\* C28 witness: the modal was closed, 100 ms or more of the clear timer passed, and
\* handleEdit opened the modal again: the item is set and no clear is pending,
\* while an update that succeeded before had cleared editingItem at once.
C28_Witness ==
    /\ isEditModalOpen
    /\ editingItem # NoEditingItem
    /\ clearTimer = NoClearTimer
    /\ crudStatus["updateMutation"] = "success"

\* C28 as stated: editingItem is cleared only 300 ms after the modal has closed.
C28_ClearedOnlyAfterDelay ==
    [][(editingItem # NoEditingItem /\ editingItem' = NoEditingItem) =>
          /\ ~isEditModalOpen
          /\ clearTimer # NoClearTimer
          /\ clearTimer[1] >= ClearTicks]_vars
\* the codes of the rows of items
CodesOf(codes) == { codes[k] : k \in 1..Len(codes) }

\* C22: the code generated for a new item is never the code of an existing item: a
\* form's code that was generated from an answered select over the rows items has
\* now (no row was inserted since) is the code of none of these rows.
C22_GeneratedCodeIsNew ==
    \A f \in Forms :
        (/\ formCode[f].code # NoCode
         /\ ~formCode[f].fromError
         /\ formCode[f].readAt = Len(itemCodes)) =>
            formCode[f].code \notin CodesOf(itemCodes)

----------------------------------------------------------------------------
\* Properties of the item form's draft and closing (specification SpecItemForm)

\* C23: after an add-mode form has been saved successfully, no draft remains in
\* sessionStorage once the form has unmounted.
C23_NoDraftAfterSave ==
    (~mounted /\ savedInAddMode) => sessionCache = NoDraft

\* C27: handleCancel never closes a dirty form without confirmation. A handleCancel
\* on a dirty form only opens the confirm dialog; onClose / setIsClosing(true) is
\* then called by the dialog's onConfirm alone. A handleCancel on a form that is not
\* dirty calls it at once. isDirty() is false as long as initialFormData is null.
C27_CancelConfirmsWhenDirty ==
    /\ [](initialFormData = Null => ~IsDirty(initialFormData, itemFormData))
    /\ [](\A c \in closeCalls : c.via = "cancel" => ~c.dirty)
    /\ [][/\ HandleCancel =>
                IF IsDirty(initialFormData, itemFormData)
                THEN confirmOpen' /\ closeCalls' = closeCalls
                ELSE ~confirmOpen' /\ closeCalls' = { [via |-> "cancel", dirty |-> FALSE] }
          /\ (\E c \in closeCalls' \ closeCalls : c.via = "confirm") =>
                (confirmOpen /\ ~confirmOpen' /\ IsDirty(initialFormData, itemFormData))]_vars

\* C27 witness: a dirty form was cancelled and the only call for closing it came
\* from the confirm dialog.
C27_Witness ==
    /\ mounted /\ ~confirmOpen
    /\ IsDirty(initialFormData, itemFormData)
    /\ closeCalls = { [via |-> "confirm", dirty |-> TRUE] }

----------------------------------------------------------------------------
\* Properties of the main layout's sidebar (specification SpecSidebar)

\* C24: in every reachable state of the main layout a locked sidebar is expanded:
\* isLocked implies not collapsed, in the state and in every committed render.
C24_LockedIsExpanded ==
    /\ isLocked => ~sidebarCollapsed
    /\ rendered.isLocked => ~rendered.collapsed

----------------------------------------------------------------------------
\* Properties of a list with search and deletions (specification SpecList)

\* C25: after any sequence of page changes, page-size changes, searches and row
\* deletions the current page is within 1..max(1, totalPages).
C25_PageWithinRange ==
    listPage \in 1..Max(1, ListTotalPages)

----------------------------------------------------------------------------
\* Properties of the patient image replacement (specification SpecImage)

\* C26: replacing a patient's image never leaves the row pointing at a deleted
\* file: once updatePatientImageMutation has ended, with success or with an error,
\* the row's image_url is null or the path of a file that is in storage.
C26_RowPointsAtStoredFile ==
    imagePc \in {"idle", "success", "error"} =>
        (image_url = Null \/ image_url \in storageFiles)

----------------------------------------------------------------------------
\* Properties of the Button (specification SpecButton)

\* C29: the rendered disabled attribute of a Button equals isLoading OR
\* props.disabled, whatever the caller passes for disabled: a Button is disabled
\* whenever isLoading is true.
C29_DisabledWhenLoading ==
    Truthy(buttonElement.disabled) <=>
        (buttonProps.isLoading \/ Truthy(PropsDisabled(buttonProps)))

----------------------------------------------------------------------------
\* Properties of the add/edit modal (specification SpecModal)

HasNonWhitespace(s) == \E k \in 1..Len(s) : s[k] \notin Whitespace

\* C30: handleSave calls onSubmit only when the name has a non-whitespace
\* character, and then with the name and description of the form; otherwise it
\* alerts, calls nothing and leaves name and description unchanged.
C30_NoBlankNameSubmitted ==
    /\ [](lastSubmit # NoSubmit => HasNonWhitespace(lastSubmit.name))
    /\ [][/\ onSubmitCalls' # onSubmitCalls =>
                /\ HasNonWhitespace(modalName)
                /\ lastSubmit'.name = modalName
                /\ lastSubmit'.description = modalDescription
                /\ modalAlerts' = modalAlerts
          /\ modalAlerts' # modalAlerts =>
                /\ ~HasNonWhitespace(modalName)
                /\ onSubmitCalls' = onSubmitCalls
                /\ lastSubmit' = lastSubmit
                /\ modalName' = modalName
                /\ modalDescription' = modalDescription
          /\ (\E id \in {"", "x1"} : HandleSave(id)) =>
                (onSubmitCalls' # onSubmitCalls \/ modalAlerts' # modalAlerts)]_vars

\* C30 witness: handleSave alerted for a name of whitespace only, and a later
\* handleSave submitted a name with a letter after a space, with the space kept.
C30_Witness ==
    /\ modalAlerts = 1
    /\ onSubmitCalls = 1
    /\ lastSubmit.name = <<" ", "a">>
    /\ modalName = <<" ", "a">>

====
